---- MODULE Spec2Model ----
(***************************************************************************)
(* Model of the mailproto/smtpd session loop (Server.HandleSMTP) and the   *)
(* per-connection state it drives (Conn), for one accepted connection.     *)
(*                                                                         *)
(* Strings of the wire are modelled as sequences of tokens; an address is  *)
(* the pair <<local, domain>>, the nil address is <<>>.  A nil AuthUser is *)
(* the string "nil".  conn.Errors is modelled by its length, the only      *)
(* thing the code reads of it.                                             *)
(***************************************************************************)
EXTENDS Integers, Sequences, FiniteSets, TLC

VARIABLES
    server,        \* the Server's configuration fields read by HandleSMTP
    conn,          \* the Conn the loop currently works on
    prev,          \* the Conn as it was before the last step
    i,             \* the ReadLoop counter of HandleSMTP
    pc,            \* "accepted", "loop" or "closed"
    cmd,           \* the last command read and the branch that handled it
    wire,          \* the lines written while handling the last step
    lastLine,      \* the last line written on this connection
    handlerCalls,  \* number of calls of Server.Handler so far
    message,       \* the message of the last Handler call (<<>> before any)
    handlerErr,    \* what the Handler returned in the last step (nil if not called)
    registry,      \* the maps s.Extensions, s.Disabled and s.Auth.Mechanisms
    call,          \* the last call on the registry and what it returned
    sessions,      \* the Conn, loop counter and fate of each goroutine of ListenAndServe
    listener,      \* the accept loop of ListenAndServe and its last Accept error
    now,           \* time.Now(), in ticks
    readDeadline,  \* the read deadline last set on the connection
    lastWrite,     \* the time of the last line written to the client
    msg,           \* a Message an application holds and calls methods on
    ret,           \* the method last called on it and what it returned
    startup        \* ListenAndServe up to its accept loop, s.Ready, s.listener and a caller

vars == <<server, conn, prev, i, pc, cmd, wire, lastLine, handlerCalls, message,
          handlerErr, registry, call, sessions, listener, now, readDeadline,
          lastWrite, msg, ret, startup>>

----------------------------------------------------------------------------
(* Bounds of the model *)

\* s.MaxCommands of the modelled servers (DefaultSessionCommandsMax is 100)
MaxCommands == 5

\* connections ListenAndServe accepts
MaxSessions == 2

\* recipients of a Message
MaxRcpt == 3

\* the most entities between the boundaries of one multipart
MaxParts == 2

\* s.ReadTimeout and s.WriteTimeout in ticks (both default to 10 s), and the
\* last tick of the clock
ReadTimeout  == 2
WriteTimeout == 2
MaxTime      == 7

----------------------------------------------------------------------------
(* Values *)

NilUser == "nil"
NilAddr == <<>>

\* principals the application's credential check can return
Users == {"u1", "u2"}

\* mailboxes seen on the wire
AddrA == <<"a", "x">>
AddrB == <<"b", "x">>
Addrs == {AddrA, AddrB}

\* AuthUser.IsUser of the modelled application: u1 owns a@x, u2 owns b@x
IsUser(user, address) ==
    \/ user = "u1" /\ address = AddrA
    \/ user = "u2" /\ address = AddrB

Line(code, text) == [code |-> code, cont |-> FALSE, text |-> text]
EhloLine(text)   == [code |-> 250, cont |-> TRUE, text |-> text]
NoLine           == [code |-> 0, cont |-> FALSE, text |-> ""]

\* Conn.WriteSMTP / Conn.WriteEHLO / Conn.WriteOK: one line on the wire
WriteSMTP(code, text) == Line(code, text)
WriteEHLO(text)       == EhloLine(text)
WriteOK               == WriteSMTP(250, "OK")

LastOf(lines, dflt) == IF lines = <<>> THEN dflt ELSE lines[Len(lines)]

----------------------------------------------------------------------------
(* errors.go *)

NilErr == [kind |-> "nil", code |-> 0, text |-> ""]
\* an SMTPError value, a pointer to an SMTPError, any other error
SMTPError(code, text)    == [kind |-> "SMTPError", code |-> code, text |-> text]
PtrSMTPError(code, text) == [kind |-> "*SMTPError", code |-> code, text |-> text]
OtherError(text)         == [kind |-> "error", code |-> 0, text |-> text]

ErrAuthFailed    == SMTPError(535, "Authentication credentials invalid")
ErrAuthCancelled == SMTPError(501, "Cancelled")
ErrRequiresTLS   == SMTPError(538, "Encryption required for requested authentication mechanism")
ErrTransaction   == SMTPError(501, "Transaction unsuccessful")

----------------------------------------------------------------------------
(* Conn: transaction state *)

\* the Conn built by ListenAndServe for an accepted connection
NewConn ==
    [IsTLS |-> FALSE, Errors |-> 0, User |-> NilUser,
     FromAddr |-> NilAddr, ToAddr |-> <<>>, transaction |-> 0]

\* StartTX without the test of c.transaction
StartTXOverwrites(c, from) ==
    [conn |-> [c EXCEPT !.transaction = 1, !.FromAddr = from], err |-> NilErr]

\* Conn.StartTX: the connection after the call, and the error returned
StartTX(c, from) ==
    IF c.transaction # 0
    THEN [conn |-> c, err |-> ErrTransaction]
    ELSE [conn |-> [c EXCEPT !.transaction = 1, !.FromAddr = from],
          err  |-> NilErr]

\* EndTX that reports no error when no transaction is open
EndTXNoCheck(c) ==
    [conn |-> [c EXCEPT !.transaction = 0], err |-> NilErr]

\* Conn.EndTX
EndTX(c) ==
    IF c.transaction = 0
    THEN [conn |-> c, err |-> ErrTransaction]
    ELSE [conn |-> [c EXCEPT !.transaction = 0], err |-> NilErr]

\* Reset that also drops the TLS flag, as a freshly accepted Conn
ResetClearsTLS(c) ==
    [c EXCEPT !.IsTLS = FALSE, !.User = NilUser, !.FromAddr = NilAddr,
              !.ToAddr = <<>>, !.transaction = 0]

\* Reset that keeps the authenticated user
ResetKeepsUser(c) ==
    [c EXCEPT !.FromAddr = NilAddr, !.ToAddr = <<>>, !.transaction = 0]

\* Reset that clears the addresses but leaves the transaction open
ResetKeepsTx(c) ==
    [c EXCEPT !.User = NilUser, !.FromAddr = NilAddr, !.ToAddr = <<>>]

\* Reset with the list of errors emptied as well
ResetClearsErrors(c) ==
    [c EXCEPT !.User = NilUser, !.FromAddr = NilAddr, !.ToAddr = <<>>,
              !.transaction = 0, !.Errors = 0]

\* Conn.Reset
Reset(c) ==
    [c EXCEPT !.User = NilUser, !.FromAddr = NilAddr,
              !.ToAddr = <<>>, !.transaction = 0]

----------------------------------------------------------------------------
(* Wire input: command lines as token sequences *)

\* strings.ToUpper on the tokens of the model
ToUpper(tok) ==
    CASE tok = "from"  -> "FROM"
      [] tok = "to"    -> "TO"
      [] tok = "ehlo"  -> "EHLO"
      [] tok = "rset"  -> "RSET"
      [] tok = "xext"  -> "XEXT"
      [] tok = "plain" -> "PLAIN"
      [] OTHER         -> tok

\* index of the first occurrence of tok in seq, 0 when absent
FirstIndex(seq, tok) ==
    IF \E k \in 1..Len(seq) : seq[k] = tok
    THEN CHOOSE k \in 1..Len(seq) :
            seq[k] = tok /\ \A j \in 1..(k - 1) : seq[j] # tok
    ELSE 0

\* strings.SplitN(s, sep, 2): the part before the first sep, whether a sep
\* was found, and the part after it
SplitN2(seq, sep) ==
    LET k == FirstIndex(seq, sep)
    IN  IF k = 0
        THEN [n |-> 1, head |-> seq, rest |-> <<>>]
        ELSE [n |-> 2, head |-> SubSeq(seq, 1, k - 1),
              rest |-> SubSeq(seq, k + 1, Len(seq))]

\* a one-token string upper-cased; longer heads stay as they are
UpperSeq(seq) == [k \in 1..Len(seq) |-> ToUpper(seq[k])]

\* Conn.ReadSMTP on a line that was read without error
ReadSMTP(line) ==
    LET command == SplitN2(line, " ")
        head    == UpperSeq(command.head)
    IN  [verb |-> IF Len(head) = 1 THEN head[1] ELSE "",
         args |-> IF command.n > 1 THEN command.rest ELSE <<>>]

\* tokens mail.ParseAddress takes as the local part or the domain
Atoms == {"a", "b", "x"}

\* pathRegex `<([^@>]+@[^@>]+)>`: the leftmost match in s, <<>> when none
NotAtOrGt(tok) == tok # "@" /\ tok # ">"

PathMatchAt(s, p, k, m) ==
    /\ s[p] = "<"
    /\ p + 1 < k /\ k + 1 < m
    /\ s[k] = "@" /\ s[m] = ">"
    /\ \A j \in (p + 1)..(k - 1) : NotAtOrGt(s[j])
    /\ \A j \in (k + 1)..(m - 1) : NotAtOrGt(s[j])

PathStarts(s) ==
    {p \in 1..Len(s) : \E k, m \in 1..Len(s) : PathMatchAt(s, p, k, m)}

FindPath(s) ==
    IF PathStarts(s) = {}
    THEN <<>>
    ELSE LET p == CHOOSE q \in PathStarts(s) : \A r \in PathStarts(s) : q <= r
             m == CHOOSE e \in 1..Len(s) :
                    \E k \in 1..Len(s) : PathMatchAt(s, p, k, e)
         IN  SubSeq(s, p, m)

\* mail.ParseAddress on a bracketed path: <local@domain> with atoms only
ParseAddress(path) ==
    IF /\ Len(path) = 5
       /\ path[1] = "<" /\ path[3] = "@" /\ path[5] = ">"
       /\ path[2] \in Atoms /\ path[4] \in Atoms
    THEN [addr |-> <<path[2], path[4]>>, err |-> NilErr]
    ELSE [addr |-> NilAddr, err |-> OtherError("mail: invalid address")]

\* Server.GetAddressArg
GetAddressArg(argName, args) ==
    LET argSplit == SplitN2(args, ":")
    IN  IF argSplit.n = 2 /\ UpperSeq(argSplit.head) = <<argName>>
        THEN LET path == FindPath(argSplit.rest)
             IN  IF path = <<>>
                 THEN [addr |-> NilAddr,
                       err  |-> OtherError("couldnt find valid FROM path")]
                 ELSE ParseAddress(path)
        ELSE [addr |-> NilAddr, err |-> OtherError("Bad arguments")]

\* the address arguments a client sends with MAIL and RCPT
FromA   == <<"FROM", ":", "<", "a", "@", "x", ">">>
FromB   == <<"from", ":", "<", "b", "@", "x", ">">>
ToA     == <<"TO", ":", "<", "a", "@", "x", ">">>
ToB     == <<"to", ":", "<", "b", "@", "x", ">">>
Unbracketed == <<"FROM", ":", "a", "@", "x">>
NoColon     == <<"TO", "<", "a", "@", "x", ">">>
AddrArgs == {FromA, FromB, ToA, ToB, Unbracketed, NoColon}

----------------------------------------------------------------------------
(* Message *)

\* DATA payloads: whether mail.ReadMessage accepts the header block, and the
\* To and From headers it holds (<<>>: header absent)
Payload(wf, to, from) == [wellformed |-> wf, To |-> to, From |-> from]

Payloads ==
    { Payload(TRUE,  <<AddrA>>, <<AddrB>>),
      Payload(TRUE,  <<>>,      <<AddrA>>),
      Payload(TRUE,  <<AddrA>>, <<>>),
      Payload(FALSE, <<>>,      <<>>) }

NoMessage == [rcpt |-> <<>>, To |-> <<>>, From |-> NilAddr]

\* NewMessage that takes the recipients from the To header
NewMessageRcptFromTo(data, rcpt) ==
    IF ~data.wellformed \/ data.To = <<>> \/ data.From = <<>>
    THEN [msg |-> NoMessage, err |-> OtherError("mail: header not in message")]
    ELSE [msg |-> [rcpt |-> data.To, To |-> data.To, From |-> data.From[1]],
          err |-> NilErr]

\* NewMessage: the message built and the error returned
NewMessage(data, rcpt) ==
    IF ~data.wellformed
    THEN [msg |-> NoMessage, err |-> OtherError("malformed header")]
    ELSE IF data.To = <<>>
    THEN [msg |-> NoMessage, err |-> OtherError("mail: header not in message")]
    ELSE IF data.From = <<>>
    THEN [msg |-> NoMessage, err |-> OtherError("mail: header not in message")]
    ELSE [msg |-> [rcpt |-> rcpt, To |-> data.To, From |-> data.From[1]],
          err |-> NilErr]

\* a mailbox that differs from AddrA in case only
AddrUpper == <<"A", "x">>

\* the content of a MIME entity as received: the bytes of a leaf, or the
\* entities between the boundaries of a multipart and whether the boundaries
\* are well formed
Text(t)              == [text |-> t, ok |-> TRUE, parts |-> <<>>]
Multipart(ok, parts) == [text |-> "--b", ok |-> ok, parts |-> parts]

\* one MIME entity as received: its Content-Type and
\* Content-Transfer-Encoding headers and its content
Entity(ctype, cte, raw) == [ctype |-> ctype, cte |-> cte, raw |-> raw]

\* the Message NewMessage returns for an envelope, a Message-ID header ("":
\* none) and a body; messageID and once are the unexported messageID and
\* genMessageID, generated counts the tokens drawn for it
Mail(rcpt, to, id, entity) ==
    [rcpt |-> rcpt, To |-> to, id |-> id, Header |-> [ctype |-> entity.ctype,
                                                     cte |-> entity.cte],
     RawBody |-> entity.raw, messageID |-> "", once |-> FALSE, generated |-> 0]

NoMail == Mail(<<>>, <<>>, "", Entity("", "", Text("")))

\* NewMessage that copies a body only if it is text
NewMailParsed(data, rcpt) ==
    LET nm == NewMessage(data.payload, rcpt)
        ok == nm.err = NilErr /\ data.entity.raw.parts = <<>> /\ data.entity.cte = ""
    IN  [err |-> IF nm.err = NilErr /\ ~ok THEN OtherError("MIME error") ELSE nm.err,
         msg |-> IF ok
                 THEN Mail(rcpt, nm.msg.To, data.id, data.entity) ELSE NoMail]

\* NewMessage on a payload with its Message-ID header and body: the body is
\* read into RawBody and not parsed
NewMail(data, rcpt) ==
    LET nm == NewMessage(data.payload, rcpt)
    IN  [err |-> nm.err,
         msg |-> IF nm.err = NilErr
                 THEN Mail(rcpt, nm.msg.To, data.id, data.entity) ELSE NoMail]

\* Message.BCC returning every recipient
BCCEveryRcpt(m) == m.rcpt

\* the loop of Message.BCC over m.rcpt
RECURSIVE BCCFrom(_, _)
BCCFrom(rcpt, inHeaders) ==
    IF rcpt = <<>> THEN <<>>
    ELSE (IF Head(rcpt) \in inHeaders THEN <<>> ELSE <<Head(rcpt)>>)
         \o BCCFrom(Tail(rcpt), inHeaders)

\* Message.BCC
BCC(m) == BCCFrom(m.rcpt, {m.To[k] : k \in 1..Len(m.To)})

\* the tokens the random source can yield
Tokens == {"t1", "t2"}

\* Message.ID generating on every call
IDNoOnce(m, token) ==
    IF m.id # "" THEN [m EXCEPT !.messageID = m.id, !.once = TRUE]
    ELSE [m EXCEPT !.messageID = token, !.once = TRUE, !.generated = @ + 1]

\* Message.ID: the Message after the call (m.messageID is what it returns);
\* token is what the random source yields if it is asked
ID(m, token) ==
    IF m.once THEN m
    ELSE IF m.id # "" THEN [m EXCEPT !.messageID = m.id, !.once = TRUE]
    ELSE [m EXCEPT !.messageID = token, !.once = TRUE, !.generated = @ + 1]

\* mime.ParseMediaType of a Content-Type header ("": no header)
MediaType(ctype) ==
    IF ctype = "" THEN [type |-> "", err |-> OtherError("mime: no media type")]
    ELSE IF ctype = "bad" THEN [type |-> "", err |-> OtherError("mime: expected slash after first token")]
    ELSE [type |-> ctype, err |-> NilErr]

IsMultipart(type) == type \in {"multipart/alternative", "multipart/mixed"}

\* the quotedprintable reader and base64.StdEncoding.Decode on the contents
\* the clients send
TransferDecode(cte, text) ==
    IF cte = "quoted-printable"
    THEN CASE text = "qp(hello)" -> [text |-> "hello", err |-> NilErr]
           [] text = "=FG"       -> [text |-> "", err |-> OtherError("quotedprintable: invalid hex byte")]
           [] OTHER              -> [text |-> text, err |-> NilErr]
    ELSE IF cte = "base64"
    THEN CASE text = "b64(ics)"  -> [text |-> "ics", err |-> NilErr]
           [] OTHER              -> [text |-> "", err |-> OtherError("illegal base64 data")]
    ELSE [text |-> text, err |-> NilErr]

\* a *Part, and the nil *Part
Part(ctype, body, children) ==
    [nil |-> FALSE, ctype |-> ctype, Body |-> body, Children |-> children]
NilPart == [nil |-> TRUE, ctype |-> "", Body |-> "", Children |-> <<>>]

\* readToPart
ReadToPart(header, raw) ==
    LET d == TransferDecode(header.cte, raw.text)
    IN  IF d.err # NilErr THEN [part |-> NilPart, err |-> d.err]
        ELSE [part |-> Part(header.ctype, d.text, <<>>), err |-> NilErr]

\* a nil pointer dereference: the goroutine panics
Panic == [kind |-> "panic", code |-> 0, text |-> "nil pointer dereference"]

\* parseContent with the error of readToPart returned from the loop
RECURSIVE ParseContentStrict(_, _)
ParseContentStrict(header, raw) ==
    LET mt   == MediaType(header.ctype)
        type == IF header.ctype = "" THEN "application/octet-stream" ELSE mt.type
    IN  IF header.ctype # "" /\ mt.err # NilErr
        THEN [parts |-> <<>>, err |-> OtherError("Media Type error")]
        ELSE IF IsMultipart(type)
        THEN IF ~raw.ok THEN [parts |-> <<>>, err |-> OtherError("MIME error")]
             ELSE LET one(p) ==
                        LET rp == ReadToPart(p, p.raw)
                            pt == MediaType(p.ctype)
                        IN  IF rp.err # NilErr THEN [part |-> NilPart, err |-> rp.err]
                            ELSE IF pt.err # NilErr THEN [part |-> NilPart, err |-> pt.err]
                            ELSE IF IsMultipart(pt.type)
                            THEN LET sub == ParseContentStrict(p, p.raw)
                                 IN  [part |-> [rp.part EXCEPT !.Children = sub.parts],
                                      err  |-> sub.err]
                            ELSE [part |-> rp.part, err |-> NilErr]
                      all == [k \in 1..Len(raw.parts) |-> one(raw.parts[k])]
                  IN  IF \E k \in 1..Len(all) : all[k].err # NilErr
                      THEN [parts |-> <<>>,
                            err |-> all[CHOOSE k \in 1..Len(all) :
                                          /\ all[k].err # NilErr
                                          /\ \A j \in 1..(k - 1) : all[j].err = NilErr].err]
                      ELSE [parts |-> [k \in 1..Len(all) |-> all[k].part], err |-> NilErr]
        ELSE LET rp == ReadToPart(header, raw)
             IN  IF rp.err # NilErr THEN [parts |-> <<>>, err |-> rp.err]
                 ELSE [parts |-> <<rp.part>>, err |-> NilErr]

\* parseContent: the parts and the error returned. In the loop over the
\* parts of a multipart the error of readToPart is overwritten by that of
\* mime.ParseMediaType before it is looked at, so a part that failed to
\* decode is appended as nil, or dereferenced if it is itself a multipart.
RECURSIVE ParseContent(_, _)
ParseContent(header, raw) ==
    LET mt   == MediaType(header.ctype)
        type == IF header.ctype = "" THEN "application/octet-stream" ELSE mt.type
    IN  IF header.ctype # "" /\ mt.err # NilErr
        THEN [parts |-> <<>>, err |-> OtherError("Media Type error")]
        ELSE IF IsMultipart(type)
        THEN IF ~raw.ok THEN [parts |-> <<>>, err |-> OtherError("MIME error")]
             ELSE LET one(p) ==
                        LET rp == ReadToPart(p, p.raw)
                            pt == MediaType(p.ctype)
                        IN  IF pt.err # NilErr THEN [part |-> NilPart, err |-> pt.err]
                            ELSE IF IsMultipart(pt.type)
                            THEN IF rp.part.nil THEN [part |-> NilPart, err |-> Panic]
                                 ELSE LET sub == ParseContent(p, p.raw)
                                      IN  [part |-> [rp.part EXCEPT !.Children = sub.parts],
                                           err  |-> sub.err]
                            ELSE [part |-> rp.part, err |-> NilErr]
                      all == [k \in 1..Len(raw.parts) |-> one(raw.parts[k])]
                  IN  IF \E k \in 1..Len(all) : all[k].err # NilErr
                      THEN [parts |-> <<>>,
                            err |-> all[CHOOSE k \in 1..Len(all) :
                                          /\ all[k].err # NilErr
                                          /\ \A j \in 1..(k - 1) : all[j].err = NilErr].err]
                      ELSE [parts |-> [k \in 1..Len(all) |-> all[k].part], err |-> NilErr]
        ELSE LET rp == ReadToPart(header, raw)
             IN  IF rp.err # NilErr THEN [parts |-> <<>>, err |-> rp.err]
                 ELSE [parts |-> <<rp.part>>, err |-> NilErr]

\* Message.Parts
Parts(m) == ParseContent(m.Header, m.RawBody)

\* findTypeInParts: the index of the first part of the type, 0 if none, -1
\* when a nil part is reached before one (p.Header of a nil *Part)
FindTypeInParts(contentType, parts) ==
    LET hit(k) == parts[k].nil \/ parts[k].ctype = contentType
    IN  IF \E k \in 1..Len(parts) : hit(k)
        THEN LET k == CHOOSE k \in 1..Len(parts) :
                         hit(k) /\ \A j \in 1..(k - 1) : ~hit(j)
             IN  IF parts[k].nil THEN -1 ELSE k
        ELSE 0

\* Message.FindBody looking for the type among the direct children only
FindBodyShallow(m, contentType) ==
    LET mt == MediaType(m.Header.ctype)
        ps == Parts(m)
        k  == FindTypeInParts(contentType, ps.parts)
    IN  IF mt.err # NilErr THEN [body |-> "", err |-> mt.err]
        ELSE IF ps.err # NilErr THEN [body |-> "", err |-> ps.err]
        ELSE IF k = -1 THEN [body |-> "", err |-> Panic]
        ELSE IF k = 0 THEN [body |-> "", err |-> OtherError("No content found")]
        ELSE [body |-> ps.parts[k].Body, err |-> NilErr]

\* Message.FindBody: the body returned and the error
FindBody(m, contentType) ==
    LET mt == MediaType(m.Header.ctype)
        ps == Parts(m)
    IN  IF mt.err # NilErr THEN [body |-> "", err |-> mt.err]
        ELSE IF ps.err # NilErr THEN [body |-> "", err |-> ps.err]
        ELSE IF mt.type = contentType
        THEN IF Len(ps.parts) > 0 THEN [body |-> ps.parts[1].Body, err |-> NilErr]
             ELSE [body |-> "", err |-> OtherError("found, but no data in body")]
        ELSE LET a == IF mt.type = "multipart/alternative" THEN 0
                      ELSE FindTypeInParts("multipart/alternative", ps.parts)
                 alternatives ==
                      IF mt.type = "multipart/alternative" THEN ps.parts
                      ELSE IF a > 0 THEN ps.parts[a].Children ELSE <<>>
                 k == FindTypeInParts(contentType, alternatives)
             IN  IF a = -1 THEN [body |-> "", err |-> Panic]
                 ELSE IF Len(alternatives) = 0
                 THEN [body |-> "", err |-> OtherError("No multipart/alternative section found")]
                 ELSE IF k = -1 THEN [body |-> "", err |-> Panic]
                 ELSE IF k = 0
                 THEN [body |-> "", err |-> OtherError("No content found in multipart/alternative section")]
                 ELSE [body |-> alternatives[k].Body, err |-> NilErr]

\* what the application's MessageHandler may return
HandlerResults ==
    { NilErr, SMTPError(550, "rejected"), PtrSMTPError(451, "try later"),
      OtherError("handler failed") }

----------------------------------------------------------------------------
(* Auth framework *)

\* the mechanisms registered with Auth.Extend
Mechanisms == {"PLAIN", "CRAM-MD5"}

\* the application's password table behind SimpleAuthFunc and FindUser
Password(user) == IF user = "u1" THEN "p1" ELSE "p2"

\* base64.StdEncoding.DecodeString on the blobs a client sends: the decoded
\* bytes, split at NUL for PLAIN and kept whole for CRAM-MD5
Blobs ==
    { "b64(-/u1/p1)", "b64(-/u2/p2)", "b64(-/u1/p2)", "b64(junk)",
      "b64(u1 hmac-p1)", "b64(u1 hmac-p2)", "b64(u3 hmac-p1)",
      "*", "" }

Base64Decode(blob) ==
    CASE blob = "b64(-/u1/p1)"    -> [ok |-> TRUE, nul |-> <<"", "u1", "p1">>, sp |-> <<"-/u1/p1">>]
      [] blob = "b64(-/u2/p2)"    -> [ok |-> TRUE, nul |-> <<"", "u2", "p2">>, sp |-> <<"-/u2/p2">>]
      [] blob = "b64(-/u1/p2)"    -> [ok |-> TRUE, nul |-> <<"", "u1", "p2">>, sp |-> <<"-/u1/p2">>]
      [] blob = "b64(junk)"       -> [ok |-> TRUE, nul |-> <<"junk">>, sp |-> <<"junk">>]
      [] blob = "b64(u1 hmac-p1)" -> [ok |-> TRUE, nul |-> <<"u1 hmac-p1">>, sp |-> <<"u1", "hmac-p1">>]
      [] blob = "b64(u1 hmac-p2)" -> [ok |-> TRUE, nul |-> <<"u1 hmac-p2">>, sp |-> <<"u1", "hmac-p2">>]
      [] blob = "b64(u3 hmac-p1)" -> [ok |-> TRUE, nul |-> <<"u3 hmac-p1">>, sp |-> <<"u3", "hmac-p1">>]
      [] blob = ""                -> [ok |-> TRUE, nul |-> <<"">>, sp |-> <<"">>]
      [] OTHER                    -> [ok |-> FALSE, nul |-> <<>>, sp |-> <<>>]

\* hex HMAC-MD5 of the challenge under a password
Hmac(password) == IF password = "p1" THEN "hmac-p1" ELSE "hmac-p2"

\* the SimpleAuthFunc of the application
SimpleAuth(username, password) ==
    IF username \in Users /\ Password(username) = password
    THEN [user |-> username, isAuth |-> TRUE]
    ELSE [user |-> NilUser, isAuth |-> FALSE]

\* AuthCramMd5.FindUser of the application
FindUser(username) ==
    IF username \in Users
    THEN [user |-> username, err |-> NilErr]
    ELSE [user |-> NilUser, err |-> OtherError("no such user")]

\* AuthPlain.unpack
Unpack(line) ==
    LET raw == Base64Decode(line)
    IN  IF ~raw.ok
        THEN [username |-> "", password |-> "", err |-> OtherError("illegal base64 data")]
        ELSE IF Len(raw.nul) # 3
        THEN [username |-> "", password |-> "", err |-> OtherError("Malformed auth string")]
        ELSE [username |-> raw.nul[2], password |-> raw.nul[3], err |-> NilErr]

\* the line a mechanism reads in its sub-dialogue: a blob, or a read error
ReadFailed == "read-error"
Responses  == Blobs \cup {ReadFailed}

AuthResult(user, err, lines) == [user |-> user, err |-> err, lines |-> lines]

\* AuthPlain.Handle without the check that the connection is TLS
AuthPlainAnyConn(c, params, resp) ==
    IF params = ""
    THEN LET lines == <<WriteSMTP(334, "")>>
         IN  IF resp = ReadFailed
             THEN AuthResult(NilUser, OtherError("read error"), lines)
             ELSE LET u == Unpack(resp)
                  IN  IF u.err # NilErr
                      THEN AuthResult(NilUser, u.err, lines)
                      ELSE LET a == SimpleAuth(u.username, u.password)
                           IN  IF a.isAuth
                               THEN AuthResult(a.user, NilErr, lines)
                               ELSE AuthResult(NilUser, ErrAuthFailed, lines)
    ELSE LET u == Unpack(params)
         IN  IF u.err = NilErr /\ SimpleAuth(u.username, u.password).isAuth
             THEN AuthResult(SimpleAuth(u.username, u.password).user, NilErr, <<>>)
             ELSE AuthResult(NilUser, ErrAuthFailed, <<>>)

\* AuthPlain.Handle; params is the initial response ("" when absent), resp
\* the line read after the 334 continuation
AuthPlainHandle(c, params, resp) ==
    IF ~c.IsTLS
    THEN AuthResult(NilUser, ErrRequiresTLS, <<>>)
    ELSE IF params = ""
    THEN LET lines == <<WriteSMTP(334, "")>>
         IN  IF resp = ReadFailed
             THEN AuthResult(NilUser, OtherError("read error"), lines)
             ELSE LET u == Unpack(resp)
                  IN  IF u.err # NilErr
                      THEN AuthResult(NilUser, u.err, lines)
                      ELSE LET a == SimpleAuth(u.username, u.password)
                           IN  IF a.isAuth
                               THEN AuthResult(a.user, NilErr, lines)
                               ELSE AuthResult(NilUser, ErrAuthFailed, lines)
    ELSE LET u == Unpack(params)
         IN  IF u.err = NilErr /\ SimpleAuth(u.username, u.password).isAuth
             THEN AuthResult(SimpleAuth(u.username, u.password).user, NilErr, <<>>)
             ELSE AuthResult(NilUser, ErrAuthFailed, <<>>)

\* AuthCramMd5.CheckResponse
CheckResponse(response) ==
    LET decoded == Base64Decode(response)
    IN  IF decoded.ok /\ Len(decoded.sp) = 2
        THEN LET f == FindUser(decoded.sp[1])
             IN  IF f.err = NilErr /\ Hmac(Password(f.user)) = decoded.sp[2]
                 THEN [user |-> f.user, ok |-> TRUE]
                 ELSE [user |-> NilUser, ok |-> FALSE]
        ELSE [user |-> NilUser, ok |-> FALSE]

\* AuthCramMd5.Handle
AuthCramMd5Handle(c, params, resp) ==
    IF ~c.IsTLS
    THEN AuthResult(NilUser, ErrRequiresTLS, <<>>)
    ELSE LET lines == <<WriteSMTP(334, "challenge")>>
         IN  IF resp = ReadFailed
             THEN AuthResult(NilUser, ErrAuthFailed, lines)
             ELSE IF resp = "*"
             THEN AuthResult(NilUser, ErrAuthCancelled, lines)
             ELSE IF CheckResponse(resp).ok
             THEN AuthResult(CheckResponse(resp).user, NilErr, lines)
             ELSE AuthResult(NilUser, ErrAuthFailed, lines)

\* the arguments a client sends with AUTH
AuthArgs ==
    { <<"PLAIN">>, <<"plain", " ", "b64(-/u1/p1)">>, <<"PLAIN", " ", "b64(-/u1/p2)">>,
      <<"CRAM-MD5">>, <<"LOGIN">>, <<>> }

\* Auth.Handle: the connection after the call, the error returned and the
\* lines the mechanism wrote
AuthHandle(c, args, resp) ==
    LET mech == SplitN2(args, " ")
        name == UpperSeq(mech.head)
        arg  == IF mech.n = 2 /\ Len(mech.rest) = 1 THEN mech.rest[1] ELSE ""
    IN  IF Len(name) = 1 /\ name[1] \in Mechanisms
        THEN LET r == IF name[1] = "PLAIN"
                      THEN AuthPlainHandle(c, arg, resp)
                      ELSE AuthCramMd5Handle(c, arg, resp)
             IN  IF r.err = NilErr
                 THEN [conn |-> [c EXCEPT !.User = r.user], err |-> NilErr,
                       lines |-> r.lines]
                 ELSE [conn |-> c, err |-> r.err, lines |-> r.lines]
        ELSE [conn |-> c, err |-> PtrSMTPError(500, "AUTH mechanism not available"),
              lines |-> <<>>]

----------------------------------------------------------------------------
(* Server.HandleSMTP *)

BuiltinVerbs ==
    { "HELO", "EHLO", "MAIL", "RCPT", "DATA", "RSET", "VRFY", "EXPN",
      "HELP", "NOOP", "QUIT", "STARTTLS", "AUTH" }

\* first tokens of the lines a client sends
WireVerbs == BuiltinVerbs \cup {"ehlo", "*", "XFOO", "XEXT"}

\* the command lines a client sends
Lines ==
    {<<v>> : v \in WireVerbs}
    \cup {<<v, " ">> \o a : v \in {"MAIL", "RCPT"}, a \in AddrArgs}
    \cup {<<"AUTH", " ">> \o a : a \in AuthArgs}

\* what ReadSMTP returns for them
Commands == {ReadSMTP(line) : line \in Lines}

\* Server.GetAddressArg on the arguments of these commands, tabulated
AddressArg ==
    [argName \in {"FROM", "TO"} |->
        [args \in {r.args : r \in Commands} |-> GetAddressArg(argName, args)]]

\* the server configurations of the model: Auth set or nil, TLSConfig set or
\* nil, the verbs Disabled maps to true, the verbs with an Extension
Server(auth, tlsConfig, disabled, extensions) ==
    [Auth |-> auth, TLSConfig |-> tlsConfig, Disabled |-> disabled,
     Extensions |-> extensions, MaxCommands |-> MaxCommands]

\* no call made on the server yet
NoCall == [op |-> "", name |-> "", ext |-> "", err |-> NilErr]

\* the maps of NewServerWithLogger and NewAuth: all empty
NewRegistry ==
    [Extensions |-> <<>>, Disabled |-> <<>>, Mechanisms |-> <<>>]

\* m[k] = v in a Go map
MapSet(m, k, v) == [x \in DOMAIN m \cup {k} |-> IF x = k THEN v ELSE m[x]]

\* Server.Extend: the maps after the call and the error returned
Extend(reg, verb, extension) ==
    IF verb \in DOMAIN reg.Extensions
    THEN [reg |-> reg, err |-> OtherError("Extension has already been registered")]
    ELSE [reg |-> [reg EXCEPT !.Extensions = MapSet(@, verb, extension)],
          err |-> NilErr]

\* Auth.Extend
AuthExtend(reg, mechanism, extension) ==
    LET m == ToUpper(mechanism)
    IN  IF m \in DOMAIN reg.Mechanisms
        THEN [reg |-> reg, err |-> OtherError("AUTH mechanism is already implemented")]
        ELSE [reg |-> [reg EXCEPT !.Mechanisms = MapSet(@, m, extension)],
              err |-> NilErr]

\* Server.Enable storing the verb as it was given
EnableNoFold(reg, verb) == [reg EXCEPT !.Disabled = MapSet(@, verb, FALSE)]

\* Server.Disable and Server.Enable, for one verb
Disable(reg, verb) == [reg EXCEPT !.Disabled = MapSet(@, ToUpper(verb), TRUE)]
Enable(reg, verb)  == [reg EXCEPT !.Disabled = MapSet(@, ToUpper(verb), FALSE)]

\* the configuration HandleSMTP reads from these maps: s.Disabled[verb] is
\* false for a verb the map does not hold
ServerWith(auth, tlsConfig, reg) ==
    Server(auth, tlsConfig, {v \in DOMAIN reg.Disabled : reg.Disabled[v]},
           DOMAIN reg.Extensions)

ServerOf(reg) == ServerWith(FALSE, FALSE, reg)

\* the maps of the modelled servers, as the application's calls build them
RegExtended    == Extend(Extend(NewRegistry, "XEXT", "e1").reg, "QUIT", "e2").reg
RegWithAuth(reg) ==
    AuthExtend(AuthExtend(reg, "plain", "m1").reg, "CRAM-MD5", "m2").reg
RegDisabledExt ==
    Disable(Disable(Disable(RegExtended, "ehlo"), "VRFY"), "QUIT")
RegReenabledExt ==
    Enable(Disable(Disable(Extend(RegExtended, "EHLO", "e1").reg, "VRFY"), "XEXT"),
           "xext")
RegReenabled ==
    Enable(Disable(Disable(Disable(NewRegistry, "ehlo"), "VRFY"), "HELP"), "HELP")

\* the record of one call of the application on the server
Call(op, name, ext) == [op |-> op, name |-> name, ext |-> ext, err |-> NilErr]

\* a server configuration, the maps it was derived from and the last call
\* the application made on the server before serving
Config(auth, tlsConfig, reg, last) ==
    [server   |-> ServerWith(auth, tlsConfig, reg),
     registry |-> IF auth THEN RegWithAuth(reg) ELSE reg,
     call     |-> last]

Configs ==
    {Config(a, t, NewRegistry, NoCall) : a \in BOOLEAN, t \in BOOLEAN}
    \cup { Config(TRUE,  TRUE,  RegDisabledExt,  Call("Disable", "QUIT", "")),
           Config(FALSE, FALSE, RegReenabledExt, Call("Enable", "xext", "")),
           Config(FALSE, TRUE,  RegReenabled,    Call("Enable", "HELP", "")),
           Config(TRUE,  FALSE, RegExtended,     Call("Extend", "QUIT", "e2")) }

Servers == {c.server : c \in Configs}

NoCmd == [verb |-> "", args |-> <<>>, ran |-> "none", res |-> ""]

\* the goroutines ListenAndServe can start, and one not started yet
SessionIds == 1..MaxSessions
NoSession  == [state |-> "none", conn |-> NewConn, i |-> 0, cause |-> ""]

\* the accept loop after net.Listen
Listening == [state |-> "listening", err |-> ""]

\* a step of the one session HandleSMTP is followed on: no other goroutine
\* and no clock
OneSession == UNCHANGED <<sessions, listener>>
Untimed    == UNCHANGED <<now, readDeadline, lastWrite>>

\* no method of a Message is called
NoRet  == [op |-> "", arg |-> "", val |-> <<>>, err |-> NilErr]

\* ListenAndServe not yet called, and a caller that has not yet received from
\* s.Ready: las is the position of the ListenAndServe goroutine and err what
\* it returned; ready is the buffer of the channel s.Ready and closed whether
\* it is closed; net is the state of the net.Listener, published whether
\* s.listener points to it; accepted counts the connections accepted; got
\* are the values the caller received from s.Ready, address and close what
\* its calls of Address and its call of Close returned
NotStarted ==
    [las |-> "start", err |-> "", ready |-> <<>>, closed |-> FALSE,
     net |-> "none", published |-> FALSE, accepted |-> 0,
     got |-> <<>>, address |-> <<>>, close |-> "none"]

\* a step of a session: no call on a Message, no step of the start-up
Serving == UNCHANGED <<msg, ret, startup>>


\* the state in which a connection has just been accepted
Accepted ==
    /\ \E c \in Configs :
          server = c.server /\ registry = c.registry /\ call = c.call
    /\ conn = NewConn
    /\ prev = NewConn
    /\ i = 0
    /\ pc = "accepted"
    /\ cmd = NoCmd
    /\ wire = <<>>
    /\ lastLine = NoLine
    /\ handlerCalls = 0
    /\ handlerErr = NilErr
    /\ message = NoMessage
    /\ sessions = [id \in SessionIds |-> NoSession]
    /\ listener = Listening
    /\ now = 0
    /\ readDeadline = now + ReadTimeout
    /\ lastWrite = 0

Init ==
    /\ Accepted
    /\ msg = NoMail
    /\ ret = NoRet
    /\ startup = NotStarted

\* the verbs an unauthenticated client may use on a server with Auth
AuthExempt == {"AUTH", "EHLO", "HELO", "NOOP", "RSET", "QUIT", "STARTTLS"}

\* the "Auth overrides" switch letting every verb through
AuthOverrideOff(s, c, verb) == "pass"

\* the "Auth overrides" switch with DATA among the verbs let through
AuthOverrideExemptsData(s, c, verb) ==
    IF s.Auth /\ c.User = NilUser
    THEN IF verb \in AuthExempt \cup {"DATA"} THEN "pass"
         ELSE IF verb = "*" THEN "cancelled"
         ELSE "required"
    ELSE "pass"

\* the "Auth overrides" switch: "pass", "cancelled" or "required"
AuthOverride(s, c, verb) ==
    IF s.Auth /\ c.User = NilUser
    THEN IF verb \in AuthExempt THEN "pass"
         ELSE IF verb = "*" THEN "cancelled"
         ELSE "required"
    ELSE "pass"

\* the loop body with the extensions consulted before the auth overrides
BranchExtensionFirst(s, c, verb) ==
    IF verb \in s.Disabled THEN "disabled"
    ELSE IF verb \in s.Extensions THEN "extension"
    ELSE IF AuthOverride(s, c, verb) # "pass" THEN "gate"
    ELSE "builtin"

\* the loop body with the extensions consulted only for verbs the switch
\* does not know
BranchBuiltinFirst(s, c, verb) ==
    IF verb \in s.Disabled THEN "disabled"
    ELSE IF AuthOverride(s, c, verb) # "pass" THEN "gate"
    ELSE IF verb \in s.Extensions /\ verb \notin BuiltinVerbs THEN "extension"
    ELSE "builtin"

\* the stage of the loop body that handles a verb
Branch(s, c, verb) ==
    IF verb \in s.Disabled THEN "disabled"
    ELSE IF AuthOverride(s, c, verb) # "pass" THEN "gate"
    ELSE IF verb \in s.Extensions THEN "extension"
    ELSE "builtin"

\* the end of one iteration where only the built-in cases count towards the
\* limit
HandledCountsBuiltinOnly(r, ran, res, c, lines, brk) ==
    /\ cmd' = [verb |-> r.verb, args |-> r.args, ran |-> ran, res |-> res]
    /\ conn' = c
    /\ prev' = conn
    /\ wire' = lines
    /\ lastLine' = LastOf(lines, lastLine)
    /\ i' = IF brk \/ ran # "builtin" THEN i ELSE i + 1
    /\ pc' = IF brk \/ i' >= server.MaxCommands THEN "closed" ELSE "loop"
    /\ UNCHANGED <<server, registry, call>>
    /\ OneSession /\ Untimed
    /\ Serving

\* the end of one iteration: brk is `break ReadLoop`, otherwise i++ and the
\* loop condition is tested
Handled(r, ran, res, c, lines, brk) ==
    /\ cmd' = [verb |-> r.verb, args |-> r.args, ran |-> ran, res |-> res]
    /\ conn' = c
    /\ prev' = conn
    /\ wire' = lines
    /\ lastLine' = LastOf(lines, lastLine)
    /\ i' = IF brk THEN i ELSE i + 1
    /\ pc' = IF brk \/ i + 1 >= server.MaxCommands THEN "closed" ELSE "loop"
    /\ UNCHANGED <<server, registry, call>>
    /\ OneSession /\ Untimed
    /\ Serving

NoDelivery == UNCHANGED <<handlerCalls, message>> /\ handlerErr' = NilErr

Builtin(r, verb) ==
    /\ pc = "loop"
    /\ r.verb = verb
    /\ Branch(server, conn, r.verb) = "builtin"

\* the reply to a disabled verb
DisabledReply(verb) ==
    IF verb = "EHLO"
    THEN <<WriteSMTP(550, "Not implemented")>>
    ELSE <<WriteSMTP(502, "Command not implemented")>>

\* the 220 greeting written before the loop
Greet ==
    /\ pc = "accepted"
    /\ wire' = <<WriteSMTP(220, "greeting")>>
    /\ lastLine' = WriteSMTP(220, "greeting")
    /\ pc' = IF 0 < server.MaxCommands THEN "loop" ELSE "closed"
    /\ prev' = conn
    /\ NoDelivery
    /\ UNCHANGED <<server, conn, i, cmd, registry, call>>
    /\ OneSession /\ Untimed
    /\ Serving

\* ReadSMTP returns an error: EOF, timeout, or another I/O error
ReadError ==
    /\ pc = "loop"
    /\ \E kind \in {"EOF", "timeout", "error"} :
          cmd' = [verb |-> "", args |-> <<>>, ran |-> "readerr", res |-> kind]
    /\ wire' = <<>>
    /\ pc' = "closed"
    /\ prev' = conn
    /\ NoDelivery
    /\ UNCHANGED <<server, conn, i, lastLine, registry, call>>
    /\ OneSession /\ Untimed
    /\ Serving

\* s.Disabled[verb]
DisabledVerb ==
    \E r \in Commands :
        /\ pc = "loop"
        /\ Branch(server, conn, r.verb) = "disabled"
        /\ Handled(r, "disabled", "", conn, DisabledReply(r.verb), FALSE)
        /\ NoDelivery

\* Auth overrides
AuthGate ==
    \E r \in Commands :
        /\ pc = "loop"
        /\ Branch(server, conn, r.verb) = "gate"
        /\ Handled(r, "gate", AuthOverride(server, conn, r.verb), conn,
                   IF AuthOverride(server, conn, r.verb) = "cancelled"
                   THEN <<WriteSMTP(501, "Cancelled")>>
                   ELSE <<WriteSMTP(530, "Authentication required")>>, FALSE)
        /\ NoDelivery

\* extensions / overrides; the extension's Handle returns nil or an error
ExtensionVerb ==
    \E r \in Commands :
        /\ pc = "loop"
        /\ Branch(server, conn, r.verb) = "extension"
        /\ \E res \in {"nil", "error"} :
             Handled(r, "extension", res, conn,
                     <<WriteSMTP(250, "extension")>>, FALSE)
        /\ NoDelivery

HELO ==
    \E r \in Commands :
        /\ Builtin(r, "HELO")
        /\ Handled(r, "builtin", "", conn, <<WriteSMTP(250, "Hello")>>, FALSE)
        /\ NoDelivery

\* the sequences that enumerate a set once each (range over a Go map)
Orders(S) ==
    {o \in [1..Cardinality(S) -> S] : \A v \in S : \E k \in DOMAIN o : o[k] = v}

\* the capability lines of EHLO with STARTTLS offered whenever TLS is
\* configured
EHLOLinesOfferTLSAgain(s, c, order) ==
    <<WriteEHLO("greeting"), WriteEHLO("SIZE")>>
    \o (IF s.TLSConfig THEN <<WriteEHLO("STARTTLS")>> ELSE <<>>)
    \o (IF c.User = NilUser /\ s.Auth THEN <<WriteEHLO("AUTH")>> ELSE <<>>)
    \o [k \in 1..Len(order) |-> WriteEHLO(order[k])]
    \o <<WriteSMTP(250, "HELP")>>

\* the capability lines of EHLO on the connection after Reset
EHLOLines(s, c, order) ==
    <<WriteEHLO("greeting"), WriteEHLO("SIZE")>>
    \o (IF ~c.IsTLS /\ s.TLSConfig THEN <<WriteEHLO("STARTTLS")>> ELSE <<>>)
    \o (IF c.User = NilUser /\ s.Auth THEN <<WriteEHLO("AUTH")>> ELSE <<>>)
    \o [k \in 1..Len(order) |-> WriteEHLO(order[k])]
    \o <<WriteSMTP(250, "HELP")>>

EHLO ==
    \E r \in Commands :
        /\ Builtin(r, "EHLO")
        /\ \E order \in Orders(server.Extensions) :
             Handled(r, "builtin", "", Reset(conn),
                     EHLOLines(server, Reset(conn), order), FALSE)
        /\ NoDelivery

\* the MAIL case without the test that the sender belongs to the user
MailCaseAnySender(c, args) ==
    LET from == AddressArg["FROM"][args]
    IN  IF from.err = NilErr
        THEN LET tx == StartTX(c, from.addr)
             IN  IF tx.err = NilErr
                 THEN [conn |-> tx.conn, res |-> "accepted",
                       line |-> WriteSMTP(250, "Accepted")]
                 ELSE [conn |-> tx.conn, res |-> "transaction",
                       line |-> WriteSMTP(501, tx.err.text)]
        ELSE [conn |-> c, res |-> "bad-args",
              line |-> WriteSMTP(501, from.err.text)]

\* the MAIL case: the connection after it and the reply
MailCase(c, args) ==
    LET from == AddressArg["FROM"][args]
    IN  IF from.err = NilErr
        THEN IF c.User = NilUser \/ IsUser(c.User, from.addr)
             THEN LET tx == StartTX(c, from.addr)
                  IN  IF tx.err = NilErr
                      THEN [conn |-> tx.conn, res |-> "accepted",
                            line |-> WriteSMTP(250, "Accepted")]
                      ELSE [conn |-> tx.conn, res |-> "transaction",
                            line |-> WriteSMTP(501, tx.err.text)]
             ELSE [conn |-> c, res |-> "not-user",
                   line |-> WriteSMTP(501, "Cannot send mail as")]
        ELSE [conn |-> c, res |-> "bad-args",
              line |-> WriteSMTP(501, from.err.text)]

MAIL ==
    \E r \in Commands :
      LET m == MailCase(conn, r.args) IN
        /\ Builtin(r, "MAIL")
        /\ Handled(r, "builtin", m.res, m.conn, <<m.line>>, FALSE)
        /\ NoDelivery

\* the RCPT case
RcptCase(c, args) ==
    LET to == AddressArg["TO"][args]
    IN  IF to.err = NilErr
        THEN [conn |-> [c EXCEPT !.ToAddr = Append(c.ToAddr, to.addr)],
              res |-> "accepted", line |-> WriteSMTP(250, "Accepted")]
        ELSE [conn |-> c, res |-> "bad-args",
              line |-> WriteSMTP(501, to.err.text)]

RCPT ==
    \E r \in Commands :
      LET m == RcptCase(conn, r.args) IN
        /\ Builtin(r, "RCPT")
        /\ Handled(r, "builtin", m.res, m.conn, <<m.line>>, FALSE)
        /\ NoDelivery

\* the DATA case with every error of the Handler answered 554
DataCaseIgnoresCode(c, readOK, data, hres) ==
    IF ~readOK
    THEN [conn |-> c, res |-> "read-error", lines |-> <<>>,
          called |-> FALSE, msg |-> NoMessage]
    ELSE LET nm == NewMessage(data, c.ToAddr)
         IN  IF nm.err = NilErr /\ EndTX(c).err = NilErr
             THEN [conn |-> EndTX(c).conn,
                   res  |-> IF hres = NilErr THEN "delivered" ELSE "handler-error",
                   lines |-> IF hres = NilErr
                             THEN <<WriteSMTP(250, "OK : queued as")>>
                             ELSE <<WriteSMTP(554, "Error: I blame me.")>>,
                   called |-> TRUE, msg |-> nm.msg]
             ELSE [conn |-> IF nm.err = NilErr THEN EndTX(c).conn ELSE c,
                   res  |-> IF nm.err = NilErr THEN "no-transaction" ELSE "parse-error",
                   lines |-> <<WriteSMTP(554, "Error: I blame you.")>>,
                   called |-> FALSE, msg |-> NoMessage]

\* the DATA case after the 354 line: readOK is the outcome of ReadData, data
\* the payload read, hres what the Handler returns if it is called
DataCase(c, readOK, data, hres) ==
    IF ~readOK
    THEN [conn |-> c, res |-> "read-error", lines |-> <<>>,
          called |-> FALSE, msg |-> NoMessage]
    ELSE LET nm == NewMessage(data, c.ToAddr)
         IN  IF nm.err = NilErr /\ EndTX(c).err = NilErr
             THEN [conn |-> EndTX(c).conn,
                   res  |-> IF hres = NilErr THEN "delivered" ELSE "handler-error",
                   lines |-> IF hres = NilErr
                             THEN <<WriteSMTP(250, "OK : queued as")>>
                             ELSE IF hres.kind = "SMTPError"
                             THEN <<WriteSMTP(hres.code, hres.text)>>
                             ELSE <<WriteSMTP(554, "Error: I blame me.")>>,
                   called |-> TRUE, msg |-> nm.msg]
             ELSE [conn |-> IF nm.err = NilErr THEN EndTX(c).conn ELSE c,
                   res  |-> IF nm.err = NilErr THEN "no-transaction" ELSE "parse-error",
                   lines |-> <<WriteSMTP(554, "Error: I blame you.")>>,
                   called |-> FALSE, msg |-> NoMessage]

\* the outcomes of reading the payload and of the Handler: the Handler's
\* result is an input only when the Handler is called
DataInputs(c) ==
    {[readOK |-> FALSE, data |-> Payload(FALSE, <<>>, <<>>), hres |-> NilErr]}
    \cup UNION { {[readOK |-> TRUE, data |-> d, hres |-> h] :
                    h \in IF /\ NewMessage(d, c.ToAddr).err = NilErr
                             /\ EndTX(c).err = NilErr
                          THEN HandlerResults ELSE {NilErr}} : d \in Payloads }

DATA ==
    \E r \in Commands :
        /\ Builtin(r, "DATA")
        /\ \E inp \in DataInputs(conn) :
             LET d == DataCase(conn, inp.readOK, inp.data, inp.hres) IN
               /\ Handled(r, "builtin", d.res, d.conn,
                          <<WriteSMTP(354, "Enter message")>> \o d.lines, FALSE)
               /\ handlerCalls' = IF d.called THEN handlerCalls + 1 ELSE handlerCalls
               /\ message' = IF d.called THEN d.msg ELSE message
               /\ handlerErr' = IF d.called THEN inp.hres ELSE NilErr

RSET ==
    \E r \in Commands :
        /\ Builtin(r, "RSET")
        /\ Handled(r, "builtin", "", Reset(conn), <<WriteOK>>, FALSE)
        /\ NoDelivery

VRFY ==
    \E r \in Commands :
        /\ Builtin(r, "VRFY")
        /\ Handled(r, "builtin", "", conn,
                   <<WriteSMTP(252, "But it was worth a shot, right?")>>, FALSE)
        /\ NoDelivery

EXPN ==
    \E r \in Commands :
        /\ Builtin(r, "EXPN")
        /\ Handled(r, "builtin", "", conn,
                   <<WriteSMTP(252, "Maybe, maybe not")>>, FALSE)
        /\ NoDelivery

HELP ==
    \E r \in Commands :
        /\ Builtin(r, "HELP")
        /\ Handled(r, "builtin", "", conn, <<WriteSMTP(214, "help")>>, FALSE)
        /\ NoDelivery

NOOP ==
    \E r \in Commands :
        /\ Builtin(r, "NOOP")
        /\ Handled(r, "builtin", "", conn, <<WriteOK>>, FALSE)
        /\ NoDelivery

QUIT ==
    \E r \in Commands :
        /\ Builtin(r, "QUIT")
        /\ Handled(r, "builtin", "", conn, <<WriteSMTP(221, "Bye")>>, TRUE)
        /\ NoDelivery

\* the Conn built after a successful handshake with the transaction copied
UpgradedConnKeepsTx(c) ==
    [IsTLS |-> TRUE, Errors |-> c.Errors, User |-> c.User,
     FromAddr |-> c.FromAddr, ToAddr |-> c.ToAddr, transaction |-> c.transaction]

\* the Conn built after a successful handshake as a freshly accepted one
UpgradedConnFresh(c) ==
    [IsTLS |-> TRUE, Errors |-> 0, User |-> NilUser,
     FromAddr |-> NilAddr, ToAddr |-> <<>>, transaction |-> 0]

\* the Conn built after a successful handshake
UpgradedConn(c) ==
    [IsTLS |-> TRUE, Errors |-> c.Errors, User |-> c.User,
     FromAddr |-> NilAddr, ToAddr |-> <<>>, transaction |-> 0]

\* the STARTTLS case; clientOK: the client completes the handshake in time
StartTLSCase(s, c, clientOK) ==
    IF s.TLSConfig /\ clientOK
    THEN [conn |-> UpgradedConn(c), res |-> "upgraded", brk |-> FALSE]
    ELSE [conn |-> c, res |-> "handshake-failed", brk |-> TRUE]

STARTTLS ==
    \E r \in Commands :
        /\ Builtin(r, "STARTTLS")
        /\ \E clientOK \in BOOLEAN :
             LET t == StartTLSCase(server, conn, clientOK) IN
               Handled(r, "builtin", t.res, t.conn,
                       <<WriteSMTP(220, "Ready to start TLS")>>, t.brk)
        /\ NoDelivery

\* the AUTH case with the test of the error inverted
AuthCaseInverted(s, c, args, resp) ==
    IF c.User # NilUser
    THEN [conn |-> c, res |-> "already",
          lines |-> <<WriteSMTP(503, "You are already authenticated")>>]
    ELSE IF s.Auth
    THEN LET a == AuthHandle(c, args, resp)
         IN  IF a.err = NilErr
             THEN [conn |-> a.conn, res |-> "failed",
                   lines |-> a.lines \o <<WriteSMTP(500, "Authentication failed")>>]
             ELSE [conn |-> a.conn, res |-> "succeeded",
                   lines |-> a.lines \o <<WriteSMTP(235, "Authentication succeeded")>>]
    ELSE [conn |-> c, res |-> "no-auth",
          lines |-> <<WriteSMTP(502, "Command not implemented")>>]

\* the AUTH case without the test for a user already set
AuthCaseReplacesUser(s, c, args, resp) ==
    IF s.Auth
    THEN LET a == AuthHandle(c, args, resp)
         IN  IF a.err # NilErr
             THEN [conn |-> a.conn, res |-> "failed",
                   lines |-> a.lines \o
                     (IF a.err.kind = "*SMTPError"
                      THEN <<WriteSMTP(a.err.code, a.err.text)>>
                      ELSE <<WriteSMTP(500, "Authentication failed")>>)]
             ELSE [conn |-> a.conn, res |-> "succeeded",
                   lines |-> a.lines \o <<WriteSMTP(235, "Authentication succeeded")>>]
    ELSE [conn |-> c, res |-> "no-auth",
          lines |-> <<WriteSMTP(502, "Command not implemented")>>]

\* the AUTH case
AuthCase(s, c, args, resp) ==
    IF c.User # NilUser
    THEN [conn |-> c, res |-> "already",
          lines |-> <<WriteSMTP(503, "You are already authenticated")>>]
    ELSE IF s.Auth
    THEN LET a == AuthHandle(c, args, resp)
         IN  IF a.err # NilErr
             THEN [conn |-> a.conn, res |-> "failed",
                   lines |-> a.lines \o
                     (IF a.err.kind = "*SMTPError"
                      THEN <<WriteSMTP(a.err.code, a.err.text)>>
                      ELSE <<WriteSMTP(500, "Authentication failed")>>)]
             ELSE [conn |-> a.conn, res |-> "succeeded",
                   lines |-> a.lines \o <<WriteSMTP(235, "Authentication succeeded")>>]
    ELSE [conn |-> c, res |-> "no-auth",
          lines |-> <<WriteSMTP(502, "Command not implemented")>>]

\* the line read in the sub-dialogue is an input only when a 334 was sent
AuthInputs(s, c, args) ==
    IF c.User = NilUser /\ s.Auth /\ AuthHandle(c, args, "").lines # <<>>
    THEN Responses ELSE {""}

AUTH ==
    \E r \in Commands :
        /\ Builtin(r, "AUTH")
        /\ \E resp \in AuthInputs(server, conn, r.args) :
             LET a == AuthCase(server, conn, r.args, resp) IN
               Handled(r, "builtin", a.res, a.conn, a.lines, FALSE)
        /\ NoDelivery

\* len(conn.Errors) above which the session is closed
MaxErrors == 3

\* the default case
UnknownCase(c) ==
    LET c2 == [c EXCEPT !.Errors = c.Errors + 1]
    IN  IF c2.Errors > MaxErrors
        THEN [conn |-> c2, brk |-> TRUE,
              lines |-> <<WriteSMTP(500, "Syntax error, command unrecognised"),
                          WriteSMTP(500, "Too many unrecognized commands")>>]
        ELSE [conn |-> c2, brk |-> FALSE,
              lines |-> <<WriteSMTP(500, "Syntax error, command unrecognised")>>]

Unknown ==
    \E r \in Commands :
      LET u == UnknownCase(conn) IN
        /\ pc = "loop"
        /\ r.verb \notin BuiltinVerbs
        /\ Branch(server, conn, r.verb) = "builtin"
        /\ Handled(r, "builtin", "unknown", u.conn, u.lines, u.brk)
        /\ NoDelivery

Next ==
    \/ Greet
    \/ ReadError
    \/ DisabledVerb
    \/ AuthGate
    \/ ExtensionVerb
    \/ HELO
    \/ EHLO
    \/ MAIL
    \/ RCPT
    \/ DATA
    \/ RSET
    \/ VRFY
    \/ EXPN
    \/ HELP
    \/ NOOP
    \/ QUIT
    \/ STARTTLS
    \/ AUTH
    \/ Unknown

Spec == Init /\ [][Next]_vars

\* every read returns, with a line or with an error: the read deadline set on
\* accept (and again by ReadLine, ReadData and before the handshake) bounds
\* each wait, so the session always takes its next step
FairSpec == Spec /\ WF_vars(Next)

TypeOK ==
    /\ server \in Servers
    /\ conn.IsTLS \in BOOLEAN
    /\ conn.Errors \in 0..(MaxErrors + 1)
    /\ conn.User \in Users \cup {NilUser}
    /\ conn.FromAddr \in Addrs \cup {NilAddr}
    /\ conn.transaction \in {0, 1}
    /\ i \in 0..MaxCommands
    /\ pc \in {"accepted", "loop", "closed"}
    /\ handlerCalls \in 0..MaxCommands
    /\ handlerErr \in HandlerResults

----------------------------------------------------------------------------
(* Server.Extend, Server.Disable, Server.Enable, Auth.Extend *)

\* names the application passes to Extend, Disable/Enable and Auth.Extend,
\* and the handlers it registers
ExtendVerbs  == {"XEXT", "xext", "QUIT"}
ToggleVerbs  == {"xext", "QUIT"}
MechNames    == {"PLAIN", "plain"}
ExtensionIds == {"e1", "e2"}
MechIds      == {"m1", "m2"}

\* Auth.Handle: the mechanism an AUTH argument is handed to ("" if none)
MechanismFor(reg, args) ==
    LET mech == SplitN2(args, " ")
        name == UpperSeq(mech.head)
    IN  IF Len(name) = 1 /\ name[1] \in DOMAIN reg.Mechanisms
        THEN reg.Mechanisms[name[1]]
        ELSE ""

\* the commands dispatched against the registry
RegistryCommands == {ReadSMTP(<<v>>) : v \in {"xext", "XEXT", "QUIT", "NOOP"}}
MechArgs == {<<"plain">>, <<"PLAIN">>, <<"LOGIN">>}

RegistryInit == Init /\ registry = NewRegistry /\ server = ServerOf(NewRegistry)

Configured(reg, c) ==
    /\ registry' = reg
    /\ server' = ServerOf(reg)
    /\ call' = c
    /\ cmd' = NoCmd
    /\ wire' = <<>>
    /\ NoDelivery
    /\ UNCHANGED <<conn, prev, i, pc, lastLine>>
    /\ OneSession /\ Untimed
    /\ Serving

CallExtend ==
    \E verb \in ExtendVerbs, e \in ExtensionIds :
        LET x == Extend(registry, verb, e) IN
          Configured(x.reg, [op |-> "Extend", name |-> verb, ext |-> e, err |-> x.err])

CallAuthExtend ==
    \E m \in MechNames, e \in MechIds :
        LET x == AuthExtend(registry, m, e) IN
          Configured(x.reg, [op |-> "Auth.Extend", name |-> m, ext |-> e, err |-> x.err])

CallDisable ==
    \E verb \in ToggleVerbs :
        Configured(Disable(registry, verb),
                   [op |-> "Disable", name |-> verb, ext |-> "", err |-> NilErr])

CallEnable ==
    \E verb \in ToggleVerbs :
        Configured(Enable(registry, verb),
                   [op |-> "Enable", name |-> verb, ext |-> "", err |-> NilErr])

\* one command read by a session of this server: the stage of the loop body
\* that handles it and, for an extension, the handler called
Dispatch ==
    \E r \in RegistryCommands :
        LET stage == Branch(server, conn, r.verb) IN
          /\ cmd' = [verb |-> r.verb, args |-> r.args, ran |-> stage, res |-> ""]
          /\ wire' = IF stage = "disabled" THEN DisabledReply(r.verb) ELSE <<>>
          /\ call' = [op |-> "dispatch", name |-> r.verb,
                      ext |-> IF stage = "extension"
                              THEN registry.Extensions[r.verb] ELSE "",
                      err |-> NilErr]
          /\ NoDelivery
          /\ UNCHANGED <<server, registry, conn, prev, i, pc, lastLine>>
          /\ OneSession /\ Untimed
          /\ Serving

\* one AUTH command handed to Auth.Handle
AuthDispatch ==
    \E args \in MechArgs :
        /\ cmd' = [verb |-> "AUTH", args |-> args, ran |-> "builtin", res |-> ""]
        /\ call' = [op |-> "auth-dispatch", name |-> args[1],
                    ext |-> MechanismFor(registry, args), err |-> NilErr]
        /\ wire' = <<>>
        /\ NoDelivery
        /\ UNCHANGED <<server, registry, conn, prev, i, pc, lastLine>>
        /\ OneSession /\ Untimed
        /\ Serving

RegistryNext ==
    \/ CallExtend
    \/ CallAuthExtend
    \/ CallDisable
    \/ CallEnable
    \/ Dispatch
    \/ AuthDispatch

RegistrySpec == RegistryInit /\ [][RegistryNext]_vars

----------------------------------------------------------------------------
(* Read deadlines: ListenAndServe, Conn.ReadSMTP, ReadLine, ReadData *)

\* verbs the clocked session is sent
TimedVerbs == {"NOOP", "DATA", "AUTH", "STARTTLS", "QUIT"}

\* the read deadline after a command read at time t has been handled.
\* ReadSMTP itself sets none; ReadData (DATA), ReadLine (the AUTH dialogue,
\* when the mechanism asks for a line) and tlsConn.SetDeadline (STARTTLS) do.
DeadlineAfter(s, c, verb, t, deadline, dialogue) ==
    IF Branch(s, c, verb) # "builtin" THEN deadline
    ELSE IF verb = "DATA" THEN t + ReadTimeout
    ELSE IF verb = "AUTH" /\ s.Auth /\ c.User = NilUser /\ dialogue
    THEN t + ReadTimeout
    ELSE IF verb = "STARTTLS" THEN t + WriteTimeout
    ELSE deadline

\* the connection is accepted at time 0: c.SetReadDeadline(now + s.ReadTimeout)
DeadlineInit ==
    /\ Init
    /\ server.Disabled = {} /\ server.Extensions = {}
    /\ server.TLSConfig

\* the greeting, written as soon as the goroutine starts
TimedGreet ==
    /\ pc = "accepted"
    /\ wire' = <<WriteSMTP(220, "greeting")>>
    /\ lastLine' = WriteSMTP(220, "greeting")
    /\ pc' = IF 0 < server.MaxCommands THEN "loop" ELSE "closed"
    /\ prev' = conn
    /\ lastWrite' = now
    /\ NoDelivery
    /\ UNCHANGED <<server, conn, i, cmd, registry, call, now, readDeadline>>
    /\ OneSession
    /\ Serving

\* time passes while the session waits in ReadSMTP
Tick ==
    /\ pc = "loop"
    /\ now < MaxTime
    /\ now' = now + 1
    /\ handlerErr' = handlerErr
    /\ UNCHANGED <<server, conn, prev, i, pc, cmd, wire, lastLine, handlerCalls,
                   message, registry, call, readDeadline, lastWrite>>
    /\ OneSession
    /\ Serving

\* a command arrives before the read deadline and is answered at once; ok:
\* the AUTH mechanism asks for a line, or the client completes the handshake
TimedCommand ==
    \E verb \in TimedVerbs, ok \in BOOLEAN :
        LET stage == Branch(server, conn, verb)
            tls   == IF stage = "builtin" /\ verb = "STARTTLS"
                     THEN StartTLSCase(server, conn, ok)
                     ELSE [conn |-> conn, res |-> "", brk |-> FALSE]
            brk   == tls.brk \/ (stage = "builtin" /\ verb = "QUIT")
        IN  /\ pc = "loop"
            /\ now <= readDeadline
            /\ cmd' = [verb |-> verb, args |-> <<>>, ran |-> stage, res |-> tls.res]
            /\ conn' = tls.conn
            /\ prev' = conn
            /\ readDeadline' = DeadlineAfter(server, conn, verb, now, readDeadline, ok)
            /\ lastWrite' = now
            /\ i' = IF brk THEN i ELSE i + 1
            /\ pc' = IF brk \/ i + 1 >= server.MaxCommands THEN "closed" ELSE "loop"
            /\ NoDelivery
            /\ UNCHANGED <<server, wire, lastLine, registry, call, now>>
            /\ OneSession
            /\ Serving

\* the deadline passes with no line read: ReadSMTP returns a timeout error
\* and the loop is left
ReadTimedOut ==
    /\ pc = "loop"
    /\ now > readDeadline
    /\ cmd' = [verb |-> "", args |-> <<>>, ran |-> "readerr", res |-> "timeout"]
    /\ pc' = "closed"
    /\ prev' = conn
    /\ NoDelivery
    /\ UNCHANGED <<server, conn, i, wire, lastLine, registry, call, now,
                   readDeadline, lastWrite>>
    /\ OneSession
    /\ Serving

DeadlineNext ==
    \/ TimedGreet
    \/ Tick
    \/ TimedCommand
    \/ ReadTimedOut

DeadlineSpec == DeadlineInit /\ [][DeadlineNext]_vars

----------------------------------------------------------------------------
(* Server.ListenAndServe: the accept loop and one goroutine per connection *)

\* the command lines the clients of the concurrent sessions send
ServeCommands ==
    {ReadSMTP(line) : line \in { <<"MAIL", " ">> \o FromA, <<"DATA">>,
                                 <<"STARTTLS">>, <<"XFOO">> }}

\* what the Handler of the concurrent sessions returns
ServeHandlerResults == {NilErr, OtherError("handler failed")}

\* the payload their clients send after DATA
ServePayload == Payload(TRUE, <<AddrA>>, <<AddrB>>)

\* the server the sessions run on
ServeInit == Init /\ server = ServerWith(FALSE, TRUE, NewRegistry)

\* every variable of the single session followed by the other actions
NotFollowed ==
    UNCHANGED <<server, conn, prev, i, pc, cmd, wire, lastLine, handlerCalls,
                message, handlerErr, registry, call>>

\* defer conn.Close() of the goroutine serving session id, closing all of them
CloseEvery(ss, id) == [k \in DOMAIN ss |-> [ss[k] EXCEPT !.state = "closed"]]

\* defer conn.Close() of the goroutine serving session id
Close(ss, id) == [ss EXCEPT ![id].state = "closed"]

\* the accept loop after listener.Accept() returned the error err ("" is
\* nil): a timeout and a temporary error are skipped, any other *net.OpError
\* is returned
AfterAccept(l, err) ==
    IF err = "fatal" THEN [state |-> "stopped", err |-> err] ELSE l

\* one iteration of the ReadLoop on the Conn c of a session; ok: ReadData
\* succeeds, or the client completes the handshake. res names what went
\* wrong in it, if anything did.
SessionCase(s, c, r, ok, hres) ==
    LET stage == Branch(s, c, r.verb) IN
    IF stage # "builtin" THEN [conn |-> c, res |-> "", brk |-> FALSE]
    ELSE IF r.verb = "MAIL"
    THEN [conn |-> MailCase(c, r.args).conn, res |-> "", brk |-> FALSE]
    ELSE IF r.verb = "RCPT"
    THEN [conn |-> RcptCase(c, r.args).conn, res |-> "", brk |-> FALSE]
    ELSE IF r.verb = "DATA"
    THEN [conn |-> DataCase(c, ok, ServePayload, hres).conn,
          res  |-> IF DataCase(c, ok, ServePayload, hres).res = "handler-error"
                   THEN "handler-error" ELSE "",
          brk  |-> FALSE]
    ELSE IF r.verb = "STARTTLS"
    THEN [conn |-> StartTLSCase(s, c, ok).conn,
          res  |-> IF StartTLSCase(s, c, ok).brk THEN "handshake-failed" ELSE "",
          brk  |-> StartTLSCase(s, c, ok).brk]
    ELSE IF r.verb = "QUIT" THEN [conn |-> c, res |-> "", brk |-> TRUE]
    ELSE IF r.verb \notin BuiltinVerbs
    THEN [conn |-> UnknownCase(c).conn,
          res  |-> IF UnknownCase(c).brk THEN "too-many-errors" ELSE "",
          brk  |-> UnknownCase(c).brk]
    ELSE [conn |-> c, res |-> "", brk |-> FALSE]

\* conn, err := listener.Accept() with err = nil: a new Conn and
\* go s.HandleSMTP(c)
Accept ==
    /\ listener.state = "listening"
    /\ \E id \in SessionIds :
          /\ sessions[id].state = "none"
          /\ \A k \in SessionIds : k < id => sessions[k].state # "none"
          /\ sessions' = [sessions EXCEPT ![id] = [NoSession EXCEPT !.state = "open"]]
    /\ listener' = AfterAccept(listener, "")
    /\ Untimed
    /\ Serving
    /\ NotFollowed

\* listener.Accept() returns an error
AcceptError ==
    /\ listener.state = "listening"
    /\ \E err \in {"timeout", "temporary", "fatal"} :
          listener' = AfterAccept(listener, err)
    /\ UNCHANGED sessions
    /\ Untimed
    /\ Serving
    /\ NotFollowed

\* one session reads a command and handles it
SessionCommand ==
    \E id \in SessionIds, r \in ServeCommands, ok \in BOOLEAN,
       hres \in ServeHandlerResults :
        LET s    == sessions[id]
            x    == SessionCase(server, s.conn, r, ok, hres)
            n    == IF x.brk THEN s.i ELSE s.i + 1
            stop == x.brk \/ n >= server.MaxCommands
            ss   == [sessions EXCEPT ![id] =
                        [state |-> "open", conn |-> x.conn, i |-> n,
                         cause |-> x.res]]
        IN  /\ s.state = "open"
            /\ sessions' = IF stop THEN Close(ss, id) ELSE ss
            /\ UNCHANGED listener
            /\ Untimed
            /\ Serving
            /\ NotFollowed

\* ReadSMTP of one session fails: a timeout or another I/O error
SessionReadError ==
    \E id \in SessionIds, kind \in {"timeout", "error"} :
        /\ sessions[id].state = "open"
        /\ sessions' = Close([sessions EXCEPT ![id].cause = kind], id)
        /\ UNCHANGED listener
        /\ Untimed
        /\ Serving
        /\ NotFollowed

ServeNext ==
    \/ Accept
    \/ AcceptError
    \/ SessionCommand
    \/ SessionReadError

ServeSpec == ServeInit /\ [][ServeNext]_vars

----------------------------------------------------------------------------
(* Start-up: the ListenAndServe goroutine and a caller waiting on Ready *)

\* the capacity of s.Ready (make(chan bool, 1)), and the most receives from
\* it and calls of Address by the caller
ReadyCap    == 1
MaxReceives == 2
MaxCalls    == 2

StartInit ==
    /\ Accepted
    /\ server = ServerOf(NewRegistry)
    /\ msg = NoMail
    /\ ret = NoRet
    /\ startup = NotStarted

\* a step of the start-up: no session moves
Started(st) ==
    /\ startup' = st
    /\ UNCHANGED <<server, conn, prev, i, pc, cmd, wire, lastLine, handlerCalls,
                   message, handlerErr, registry, call, msg, ret>>
    /\ OneSession /\ Untimed

\* net.Listen; on an error ListenAndServe returns and the deferred
\* close(s.Ready) runs
Listen ==
    /\ startup.las = "start"
    /\ \E ok \in BOOLEAN :
          Started(IF ok
                  THEN [startup EXCEPT !.las = "listening", !.net = "open"]
                  ELSE [startup EXCEPT !.las = "returned", !.err = "listen",
                                       !.closed = TRUE])

\* s.Ready <- true
SendReady ==
    /\ startup.las = "listening"
    /\ Len(startup.ready) < ReadyCap
    /\ Started([startup EXCEPT !.las = "sent",
                               !.ready = Append(startup.ready, TRUE)])

\* s.listener = &listener
Publish ==
    /\ startup.las = "sent"
    /\ Started([startup EXCEPT !.las = "serving", !.published = TRUE])

\* listener.Accept returns a connection
AcceptConn ==
    /\ startup.las = "serving"
    /\ startup.net = "open"
    /\ startup.accepted < MaxSessions
    /\ Started([startup EXCEPT !.accepted = startup.accepted + 1])

\* listener.Accept on the closed listener: ListenAndServe returns the error
\* and the deferred close(s.Ready) runs
AcceptClosed ==
    /\ startup.las = "serving"
    /\ startup.net = "closed"
    /\ Started([startup EXCEPT !.las = "returned", !.err = "accept",
                               !.closed = TRUE])

\* <-s.Ready by the caller: a buffered value, or false once the channel is
\* closed and empty
Receive ==
    /\ Len(startup.got) < MaxReceives
    /\ \/ /\ startup.ready # <<>>
          /\ Started([startup EXCEPT !.got = Append(startup.got, Head(startup.ready)),
                                     !.ready = Tail(startup.ready)])
       \/ /\ startup.ready = <<>> /\ startup.closed
          /\ Started([startup EXCEPT !.got = Append(startup.got, FALSE)])

\* what a read of s.listener by the caller may see: the write of
\* ListenAndServe comes after its send on s.Ready, so nothing orders it
\* before the read
Seen == IF startup.published THEN BOOLEAN ELSE {FALSE}

\* the caller has received true from s.Ready
IsReady == startup.got # <<>> /\ startup.got[1]

\* Server.Address called once Ready yielded true
CallAddress ==
    /\ IsReady
    /\ Len(startup.address) < MaxCalls
    /\ \E seen \in Seen :
          Started([startup EXCEPT
                     !.address = Append(startup.address,
                                        IF seen THEN "addr" ELSE "")])

\* Server.Close called once Ready yielded true: (*s.listener).Close()
CallClose ==
    /\ IsReady
    /\ startup.close = "none"
    /\ \E seen \in Seen :
          Started(IF seen
                  THEN [startup EXCEPT !.close = "ok", !.net = "closed"]
                  ELSE [startup EXCEPT !.close = "panic"])

StartNext ==
    \/ Listen
    \/ SendReady
    \/ Publish
    \/ AcceptConn
    \/ AcceptClosed
    \/ Receive
    \/ CallAddress
    \/ CallClose

StartSpec == StartInit /\ [][StartNext]_vars

----------------------------------------------------------------------------
(* Methods of a Message *)

\* sequences of at most n elements of S
SeqsUpTo(S, n) == UNION {[1..k -> S] : k \in 0..n}

\* the entities clients send: leaves that decode and leaves that do not, a
\* leaf without a Content-Type and one whose Content-Type does not parse
PlainQP == Entity("text/plain", "quoted-printable", Text("qp(hello)"))
Html    == Entity("text/html", "", Text("<p>"))
BadQP   == Entity("text/html", "quoted-printable", Text("=FG"))
GoodB64 == Entity("text/calendar", "base64", Text("b64(ics)"))
BadB64  == Entity("text/calendar", "base64", Text("!!"))
NoType  == Entity("", "", Text("hello"))
BadType == Entity("bad", "", Text("hello"))

Leaves == {PlainQP, Html, BadQP, GoodB64, BadB64, NoType, BadType}

\* multipart/alternative entities, one with a missing closing boundary and one
\* sent base64-encoded
Alternatives ==
    {Entity("multipart/alternative", "", Multipart(TRUE, ps)) :
        ps \in SeqsUpTo({PlainQP, Html, BadQP}, MaxParts)}
    \cup {Entity("multipart/alternative", "", Multipart(FALSE, <<PlainQP>>)),
          Entity("multipart/alternative", "base64", Multipart(TRUE, <<PlainQP>>))}

Mixed ==
    {Entity("multipart/mixed", "", Multipart(TRUE, ps)) :
        ps \in SeqsUpTo(Leaves \cup Alternatives, MaxParts) \ {<<>>}}

Bodies == Leaves \cup Alternatives \cup Mixed

\* what NewMessage is given: the payload's envelope headers, its Message-ID
\* header, its body, and the recipients of the transaction
MailData(payload, id, entity, rcpt) ==
    [payload |-> payload, id |-> id, entity |-> entity, rcpt |-> rcpt]

Received ==
    {MailData(Payload(TRUE, t, <<AddrA>>), "", PlainQP, r) :
        r \in SeqsUpTo({AddrA, AddrB, AddrUpper}, MaxRcpt),
        t \in SeqsUpTo({AddrA, AddrB}, 2)}
    \cup {MailData(Payload(wf, <<AddrA>>, <<AddrA>>), id, PlainQP, <<AddrA>>) :
             wf \in BOOLEAN, id \in {"", "<m1@x>"}}
    \cup {MailData(Payload(TRUE, <<AddrA>>, <<AddrA>>), "<m1@x>", e, <<AddrA>>) :
             e \in Bodies}

MessageInit ==
    /\ Accepted
    /\ server = ServerOf(NewRegistry)
    /\ msg = NoMail
    /\ ret = NoRet
    /\ startup = NotStarted

\* a call of NewMessage or of a method on the Message: nothing else moves
Returned(m, r) ==
    /\ msg' = m
    /\ ret' = r
    /\ UNCHANGED <<server, conn, prev, i, pc, cmd, wire, lastLine, handlerCalls,
                   message, handlerErr, registry, call, startup>>
    /\ OneSession /\ Untimed

\* the application holds a Message once NewMessage returned one
Held == ret.op # "" /\ msg # NoMail

CallNewMessage ==
    /\ ret.op = ""
    /\ \E data \in Received :
          Returned(NewMail(data, data.rcpt).msg,
                   [op |-> "NewMessage", arg |-> data, val |-> <<>>,
                    err |-> NewMail(data, data.rcpt).err])

CallBCC ==
    /\ Held
    /\ Returned(msg, [op |-> "BCC", arg |-> "", val |-> BCC(msg), err |-> NilErr])

CallID ==
    /\ Held
    /\ \E token \in Tokens :
          Returned(ID(msg, token),
                   [op |-> "ID", arg |-> "", val |-> ID(msg, token).messageID,
                    err |-> NilErr])

CallParts ==
    /\ Held
    /\ Returned(msg, [op |-> "Parts", arg |-> "", val |-> Parts(msg).parts,
                      err |-> Parts(msg).err])

\* Plain and HTML
CallFindBody ==
    /\ Held
    /\ \E contentType \in {"text/plain", "text/html"} :
          Returned(msg, [op |-> "FindBody", arg |-> contentType,
                         val |-> FindBody(msg, contentType).body,
                         err |-> FindBody(msg, contentType).err])

MessageNext ==
    \/ CallNewMessage
    \/ CallBCC
    \/ CallID
    \/ CallParts
    \/ CallFindBody

MessageSpec == MessageInit /\ [][MessageNext]_vars

----------------------------------------------------------------------------
(* Properties *)

\* the last step read a command and handled it
CommandRead == cmd.ran \in {"disabled", "gate", "extension", "builtin"}

\* the reply to the last command: the last line written for it
Reply == LastOf(wire, NoLine)

\* a step of the loop that reads a command and handles it
CommandStep == pc = "loop" /\ vars' # vars /\ cmd'.ran # "readerr"

\* MAIL arguments every reading of the grammar accepts
WellFormedFrom == {FromA, FromB}

\* C1: on a server with auth configured and no user set, a verb that is not
\* disabled and not one of AUTH, EHLO, HELO, NOOP, RSET, QUIT, STARTTLS is
\* answered 530 (501 Cancelled for "*"); no extension or built-in handler
\* runs, and the connection state and the deliveries are as before.
C1_AuthGate ==
    ( /\ CommandRead
      /\ server.Auth
      /\ prev.User = NilUser
      /\ cmd.verb \notin server.Disabled
      /\ cmd.verb \notin {"AUTH", "EHLO", "HELO", "NOOP", "RSET", "QUIT", "STARTTLS"} )
    => /\ wire = << IF cmd.verb = "*"
                    THEN [code |-> 501, cont |-> FALSE, text |-> "Cancelled"]
                    ELSE [code |-> 530, cont |-> FALSE,
                          text |-> "Authentication required"] >>
       /\ cmd.ran = "gate"
       /\ conn = prev

C1_Witness ==
    /\ server.Auth
    /\ cmd.verb = "XEXT" /\ "XEXT" \in server.Extensions
    /\ cmd.ran = "gate"
    /\ Reply.code = 530
    /\ conn.User = NilUser

\* C2 (as claimed): once a DATA command has been handled by the built-in
\* handler, no transaction is open, whatever the outcome of the delivery.
C2_DataClosesTransaction ==
    (cmd.verb = "DATA" /\ cmd.ran = "builtin") => conn.transaction = 0

\* C3: a MAIL received while a transaction is open is answered 501 and leaves
\* the transaction and the reverse-path as they were.
C3_SecondMail ==
    (CommandRead /\ cmd.verb = "MAIL" /\ prev.transaction # 0)
    => /\ Reply.code = 501
       /\ Len(wire) = 1
       /\ conn.transaction = prev.transaction
       /\ conn.FromAddr = prev.FromAddr

C3_Witness ==
    /\ cmd.verb = "MAIL" /\ cmd.args = FromB
    /\ prev.transaction # 0 /\ prev.FromAddr = AddrA
    /\ conn.FromAddr = AddrA
    /\ Reply.code = 501

\* C4 (as claimed): the reverse-path is set exactly when a transaction is
\* open.
C4_FromIffTransaction ==
    (conn.FromAddr # NilAddr) <=> (conn.transaction # 0)

\* C5 (as claimed): when no transaction is open the recipient list is empty.
C5_NoTransactionNoRcpts ==
    conn.transaction = 0 => conn.ToAddr = <<>>

\* C6: whenever the Handler is called, the message it is given holds the
\* recipients of the connection as they are when the DATA command completes,
\* element for element.
C6_MessageRcpt ==
    [][ handlerCalls' # handlerCalls
        => /\ message'.rcpt = conn'.ToAddr
           /\ message'.rcpt = conn.ToAddr ]_vars

C6_Witness ==
    /\ cmd.verb = "DATA"
    /\ handlerCalls = 1
    /\ message.rcpt = <<AddrB, AddrA>>
    /\ conn.ToAddr = <<AddrB, AddrA>>

\* C7: IsTLS is false on accept, becomes true only by a STARTTLS whose
\* handshake succeeds, and once true stays true.
C7_TLSMonotonic ==
    /\ ~conn.IsTLS
    /\ [][ /\ conn.IsTLS => conn'.IsTLS
           /\ (~conn.IsTLS /\ conn'.IsTLS)
                => /\ cmd'.verb = "STARTTLS"
                   /\ cmd'.ran = "builtin"
                   /\ server.TLSConfig
                   /\ wire' = <<[code |-> 220, cont |-> FALSE,
                                 text |-> "Ready to start TLS"]>> ]_vars

C7_Witness ==
    /\ conn.IsTLS /\ prev.IsTLS
    /\ cmd.verb \in {"EHLO", "RSET"}
    /\ cmd.ran = "builtin"

\* C8: the user goes from unset to set only in an AUTH command that is
\* answered 235, and an AUTH that is answered otherwise leaves the user as
\* it was.
C8_UserSetByAuth ==
    /\ (prev.User = NilUser /\ conn.User # NilUser)
         => (cmd.verb = "AUTH" /\ cmd.ran = "builtin" /\ Reply.code = 235)
    /\ (CommandRead /\ cmd.verb = "AUTH" /\ Reply.code # 235)
         => conn.User = prev.User
    /\ (CommandRead /\ cmd.verb = "AUTH" /\ cmd.ran = "builtin" /\ Reply.code = 235)
         => (server.Auth /\ prev.User = NilUser)

C8_Witness ==
    /\ cmd.verb = "AUTH"
    /\ prev.User = NilUser
    /\ conn.User = "u1"
    /\ Reply.code = 235

\* C9 (as claimed): a built-in RSET leaves the user as it was.
C9_RsetKeepsUser ==
    (cmd.verb = "RSET" /\ cmd.ran = "builtin") => conn.User = prev.User

\* C9 (amended): a built-in RSET clears the user, and on a server with auth
\* configured (and MAIL not disabled) the MAIL that follows it is answered
\* 530 and changes nothing.
C9_RsetClearsUser ==
    [][ /\ (CommandStep /\ cmd'.verb = "RSET" /\ cmd'.ran = "builtin")
             => conn'.User = NilUser
        /\ ( /\ cmd.verb = "RSET" /\ cmd.ran = "builtin"
             /\ server.Auth /\ "MAIL" \notin server.Disabled
             /\ CommandStep /\ cmd'.verb = "MAIL" )
             => (Reply'.code = 530 /\ conn' = conn) ]_vars

C9_Witness ==
    /\ cmd.verb = "RSET" /\ cmd.ran = "builtin"
    /\ prev.User = "u2"
    /\ conn.User = NilUser

\* C10 (as claimed): after a built-in RSET or EHLO the reverse-path and the
\* recipients are empty and no transaction is open, and a well-formed MAIL
\* that follows is accepted.
C10_ResetThenMail ==
    [][ /\ (CommandStep /\ cmd'.verb \in {"RSET", "EHLO"} /\ cmd'.ran = "builtin")
             => /\ conn'.FromAddr = NilAddr
                /\ conn'.ToAddr = <<>>
                /\ conn'.transaction = 0
        /\ ( /\ cmd.verb \in {"RSET", "EHLO"} /\ cmd.ran = "builtin"
             /\ CommandStep /\ cmd'.verb = "MAIL"
             /\ cmd'.args \in WellFormedFrom )
             => Reply'.code = 250 ]_vars

\* C10 (amended): after a built-in RSET or EHLO the reverse-path and the
\* recipients are empty and no transaction is open; a well-formed MAIL that
\* follows and reaches the built-in handler is accepted on a server without
\* auth, and is answered 530 on a server with auth.
C10_ResetThenMailByAuth ==
    [][ /\ (CommandStep /\ cmd'.verb \in {"RSET", "EHLO"} /\ cmd'.ran = "builtin")
             => /\ conn'.FromAddr = NilAddr
                /\ conn'.ToAddr = <<>>
                /\ conn'.transaction = 0
        /\ ( /\ cmd.verb \in {"RSET", "EHLO"} /\ cmd.ran = "builtin"
             /\ CommandStep /\ cmd'.verb = "MAIL"
             /\ cmd'.args \in WellFormedFrom )
             => /\ (server.Auth /\ "MAIL" \notin server.Disabled)
                     => (Reply'.code = 530 /\ conn' = conn)
                /\ (~server.Auth /\ cmd'.ran = "builtin")
                     => /\ Reply'.code = 250
                        /\ conn'.transaction # 0
                        /\ conn'.FromAddr \in Addrs ]_vars

C10_Witness ==
    /\ cmd.verb \in {"RSET", "EHLO"} /\ cmd.ran = "builtin"
    /\ prev.transaction # 0
    /\ prev.ToAddr # <<>>
    /\ conn.transaction = 0
    /\ conn.FromAddr = NilAddr
    /\ conn.ToAddr = <<>>

\* C11: a built-in EHLO leaves the user unset; on a server with auth
\* configured, as long as the user is unset every MAIL, RCPT and DATA (not
\* disabled) is answered 530 and changes neither the connection nor the
\* deliveries; and the user becomes set again only by an AUTH answered 235.
C11_EhloClearsUser ==
    [][ /\ (CommandStep /\ cmd'.verb = "EHLO" /\ cmd'.ran = "builtin")
             => conn'.User = NilUser
        /\ ( /\ server.Auth /\ conn.User = NilUser
             /\ CommandStep /\ cmd'.verb \in {"MAIL", "RCPT", "DATA"}
             /\ cmd'.verb \notin server.Disabled )
             => /\ wire' = <<[code |-> 530, cont |-> FALSE,
                              text |-> "Authentication required"]>>
                /\ conn' = conn
                /\ handlerCalls' = handlerCalls
        /\ (conn.User = NilUser /\ conn'.User # NilUser)
             => (cmd'.verb = "AUTH" /\ Reply'.code = 235) ]_vars

C11_Witness ==
    /\ server.Auth
    /\ cmd.verb = "EHLO" /\ cmd.ran = "builtin"
    /\ prev.User = "u1"
    /\ conn.User = NilUser

\* the lines of the last step hold a capability line with this keyword
Offers(keyword) == \E k \in 1..Len(wire) : wire[k].cont /\ wire[k].text = keyword

\* C12: the reply to a built-in EHLO is a run of `250-` lines closed by one
\* `250 HELP` line; it offers STARTTLS exactly when TLS is configured and the
\* connection is not yet TLS, and AUTH exactly when auth is configured and the
\* user is unset (as it is once EHLO has reset the connection); the EHLO
\* itself never ends the session, which closes after it only at the command
\* limit.
C12_EhloReply ==
    (cmd.verb = "EHLO" /\ cmd.ran = "builtin")
    => /\ Len(wire) >= 1
       /\ wire[Len(wire)] = [code |-> 250, cont |-> FALSE, text |-> "HELP"]
       /\ \A k \in 1..(Len(wire) - 1) : wire[k].code = 250 /\ wire[k].cont
       /\ Offers("STARTTLS") <=> (server.TLSConfig /\ ~prev.IsTLS)
       /\ Offers("AUTH") <=> (server.Auth /\ conn.User = NilUser)
       /\ conn.IsTLS = prev.IsTLS
       /\ pc = "closed" => i >= server.MaxCommands

C12_Witness ==
    /\ cmd.verb = "EHLO" /\ cmd.ran = "builtin"
    /\ server.TLSConfig /\ prev.IsTLS
    /\ ~Offers("STARTTLS")
    /\ Len(wire) > 3
    /\ pc = "loop"

\* C13 (as claimed): the first line written on an accepted connection is the
\* 220 greeting, and when the session has ended the last line written is 221
\* or a 5xx reply.
C13_FirstAndLastLine ==
    /\ [][ pc = "accepted" => (Len(wire') >= 1 /\ wire'[1].code = 220) ]_vars
    /\ [](pc = "closed" => (lastLine.code = 221 \/ lastLine.code \in 500..599))

\* a verb no case of the switch names
Unrecognised(verb) == verb \notin BuiltinVerbs

\* C14 (as claimed): every unrecognised verb read (not disabled, not an
\* extension) is answered 500 and adds one to the tally.
C14_EveryUnknownTallied ==
    ( /\ CommandRead
      /\ Unrecognised(cmd.verb)
      /\ cmd.verb \notin server.Disabled
      /\ cmd.verb \notin server.Extensions )
    => /\ Reply.code = 500
       /\ conn.Errors = prev.Errors + 1

\* C14 (amended): the tally changes only when an unrecognised verb reaches the
\* default case, which adds one to it and answers 500; when the tally then
\* exceeds 3 a second line `500 Too many unrecognized commands` follows and
\* the session ends at once, otherwise that is the only line and the session
\* ends only at the command limit.  An unrecognised verb stopped by the auth
\* gate is answered 530 (501 for "*") and is not tallied.
C14_UnknownTally ==
    [][ /\ conn'.Errors # conn.Errors
             => /\ CommandStep /\ cmd'.ran = "builtin"
                /\ Unrecognised(cmd'.verb)
        /\ ( /\ CommandStep /\ cmd'.ran = "builtin"
             /\ Unrecognised(cmd'.verb) )
             => /\ conn'.Errors = conn.Errors + 1
                /\ wire'[1] = [code |-> 500, cont |-> FALSE,
                               text |-> "Syntax error, command unrecognised"]
                /\ IF conn'.Errors > 3
                   THEN /\ Len(wire') = 2
                        /\ wire'[2] = [code |-> 500, cont |-> FALSE,
                                       text |-> "Too many unrecognized commands"]
                        /\ pc' = "closed"
                   ELSE /\ Len(wire') = 1
                        /\ pc' = "closed" => i' >= server.MaxCommands
        /\ ( /\ CommandStep /\ cmd'.ran = "gate"
             /\ Unrecognised(cmd'.verb) )
             => /\ Reply'.code = IF cmd'.verb = "*" THEN 501 ELSE 530
                /\ conn'.Errors = conn.Errors ]_vars

C14_Witness ==
    /\ cmd.res = "unknown" /\ cmd.ran = "builtin"
    /\ conn.IsTLS
    /\ conn.Errors = 4
    /\ Len(wire) = 2
    /\ pc = "closed"

\* the number of command lines read so far: one per completed iteration, and
\* one more when the last command left the loop by `break`
CommandsRead ==
    IF pc = "closed" /\ CommandRead /\ i < server.MaxCommands THEN i + 1 ELSE i

\* C15: the number of commands read never decreases and never exceeds
\* MaxCommands; every command read adds one to it, whichever stage handles it;
\* once it has reached MaxCommands the session is closed and nothing more is
\* read (a closed session takes no step); and every session ends.
C15_CommandLimit ==
    /\ [][ /\ CommandsRead' >= CommandsRead
           /\ CommandsRead' <= server.MaxCommands
           /\ CommandStep => CommandsRead' = CommandsRead + 1
           /\ pc # "closed" ]_vars
    /\ [](CommandsRead = server.MaxCommands => pc = "closed")
    /\ <>(pc = "closed")

C15_Witness ==
    /\ pc = "closed"
    /\ CommandsRead = server.MaxCommands
    /\ i = server.MaxCommands
    /\ cmd.ran = "gate"
    /\ lastLine.code = 530

C17_HandlerOncePerData ==
    [][ /\ handlerCalls' # handlerCalls
             => /\ handlerCalls' = handlerCalls + 1
                /\ CommandStep /\ cmd'.verb = "DATA" /\ cmd'.ran = "builtin"
                /\ conn.transaction # 0
                /\ cmd'.res \notin {"read-error", "parse-error"}
                /\ message' # NoMessage
        /\ ( /\ CommandStep /\ cmd'.verb = "DATA" /\ cmd'.ran = "builtin"
             /\ conn.transaction # 0
             /\ cmd'.res \notin {"read-error", "parse-error"} )
             => handlerCalls' = handlerCalls + 1
        /\ (CommandStep /\ cmd'.verb = "DATA" /\ conn.transaction = 0)
             => handlerCalls' = handlerCalls ]_vars

C17_Witness ==
    /\ i = 3
    /\ cmd.verb = "DATA" /\ cmd.ran = "builtin"
    /\ prev.transaction # 0
    /\ prev.ToAddr = <<AddrA>>
    /\ handlerCalls = 1
    /\ message.rcpt = <<AddrA>>

\* C18 (as claimed): a built-in DATA received with no transaction open is
\* answered 501 and does not reach the Handler.
C18_DataWithoutTransaction ==
    (cmd.verb = "DATA" /\ cmd.ran = "builtin" /\ prev.transaction = 0)
    => /\ Reply.code = 501
       /\ cmd.res \notin {"delivered", "handler-error"}

\* the mechanism an AUTH command names, in upper case
MechanismOf(args) == UpperSeq(SplitN2(args, " ").head)

\* C19 (as claimed): on a server with auth configured, an AUTH PLAIN or AUTH
\* CRAM-MD5 from a client with no user on a connection that is not TLS is
\* answered 538, with no 334 line before it, and leaves the user unset.
C19_AuthNeedsTLS ==
    ( /\ cmd.verb = "AUTH" /\ cmd.ran = "builtin"
      /\ server.Auth
      /\ prev.User = NilUser
      /\ ~prev.IsTLS
      /\ MechanismOf(cmd.args) \in {<<"PLAIN">>, <<"CRAM-MD5">>} )
    => /\ Reply.code = 538
       /\ \A k \in 1..Len(wire) : wire[k].code # 334
       /\ conn.User = NilUser

\* C20: a built-in AUTH received while a user is set is answered by the
\* single line 503; no mechanism runs (no 334 line, no credential accepted)
\* and the connection, the user included, is as before.
C20_AlreadyAuthenticated ==
    (cmd.verb = "AUTH" /\ cmd.ran = "builtin" /\ prev.User # NilUser)
    => /\ wire = <<[code |-> 503, cont |-> FALSE,
                    text |-> "You are already authenticated"]>>
       /\ conn = prev
       /\ conn.User = prev.User

C20_Witness ==
    /\ cmd.verb = "AUTH" /\ cmd.ran = "builtin"
    /\ cmd.args = <<"plain", " ", "b64(-/u1/p1)">>
    /\ prev.User = "u2"
    /\ conn.User = "u2"
    /\ Reply.code = 503

\* C21 (as claimed): on a TLS connection of a server with auth configured,
\* an AUTH PLAIN whose credentials the check rejects, and an AUTH CRAM-MD5
\* that fails, are answered 535 (501 when CRAM-MD5 is cancelled with "*"),
\* leave the user unset and do not end the session; an AUTH that succeeds is
\* answered 235 with the user set.
C21_AuthFailed535 ==
    /\ ( /\ cmd.verb = "AUTH" /\ cmd.ran = "builtin" /\ cmd.res = "failed"
         /\ prev.IsTLS
         /\ \/ cmd.args = <<"PLAIN", " ", "b64(-/u1/p2)">>
            \/ MechanismOf(cmd.args) = <<"CRAM-MD5">> )
       => /\ Reply.code \in {535, 501}
          /\ conn.User = NilUser
          /\ pc = "closed" => i >= server.MaxCommands
    /\ (cmd.verb = "AUTH" /\ cmd.ran = "builtin" /\ cmd.res = "succeeded")
       => /\ Reply.code = 235
          /\ conn.User \in Users

\* RCPT arguments every reading of the grammar accepts
WellFormedTo == {ToA, ToB}

\* the mailbox a well-formed argument names
MailboxOf(args) == IF args \in {FromA, ToA} THEN AddrA ELSE AddrB

C23_StartTLSCarriesOver ==
    /\ (cmd.verb = "STARTTLS" /\ cmd.ran = "builtin" /\ cmd.res = "upgraded")
       => /\ conn.IsTLS
          /\ conn.User = prev.User
          /\ conn.Errors = prev.Errors
          /\ pc = "closed" => i >= server.MaxCommands
    /\ (cmd.verb = "STARTTLS" /\ cmd.ran = "builtin" /\ cmd.res # "upgraded")
       => /\ pc = "closed"
          /\ conn.IsTLS = prev.IsTLS
    /\ (cmd.verb = "STARTTLS" /\ cmd.ran = "builtin" /\ pc = "loop")
       => cmd.res = "upgraded"

C23_Witness ==
    /\ cmd.verb = "STARTTLS" /\ cmd.ran = "builtin" /\ cmd.res = "upgraded"
    /\ prev.User = "u1" /\ conn.User = "u1"
    /\ prev.Errors = 1 /\ conn.Errors = 1
    /\ conn.IsTLS
    /\ pc = "loop"

\* C24 (as claimed): on a server without a TLS configuration a built-in
\* STARTTLS is answered with a failure reply, `220 Ready to start TLS` is not
\* written, and the connection does not become TLS.
C24_NoTLSConfigRefused ==
    (cmd.verb = "STARTTLS" /\ cmd.ran = "builtin" /\ ~server.TLSConfig)
    => /\ ~conn.IsTLS
       /\ Reply.code >= 400
       /\ \A k \in 1..Len(wire) :
            wire[k] # [code |-> 220, cont |-> FALSE, text |-> "Ready to start TLS"]

\* a call on the registry has just returned
Called(op) == call'.op = op /\ <<registry, call>>' # <<registry, call>>

\* C25 (as claimed): Extend and Auth.Extend under a name already registered
\* return an error and leave the maps as they were; under a free name they
\* return nil, and the handler given is then the one a command (an AUTH
\* argument) whose upper-cased verb (mechanism) is that name is handed to.
C25_Registration ==
    [][ /\ (Called("Extend") /\ call'.name \in DOMAIN registry.Extensions)
             => (call'.err # NilErr /\ registry' = registry)
        /\ (Called("Extend") /\ call'.name \notin DOMAIN registry.Extensions)
             => /\ call'.err = NilErr
                /\ ToUpper(call'.name) \in DOMAIN registry'.Extensions
                /\ registry'.Extensions[ToUpper(call'.name)] = call'.ext
        /\ (Called("Auth.Extend") /\ ToUpper(call'.name) \in DOMAIN registry.Mechanisms)
             => (call'.err # NilErr /\ registry' = registry)
        /\ (Called("Auth.Extend") /\ ToUpper(call'.name) \notin DOMAIN registry.Mechanisms)
             => /\ call'.err = NilErr
                /\ MechanismFor(registry', <<call'.name>>) = call'.ext ]_vars

\* C26: a command whose verb has an extension, is not disabled and passes the
\* auth gate is handled by the extension and by nothing else: the connection
\* (user, transaction, error count) is as before, no line of a built-in
\* handler is written, and the session goes on, whether the extension
\* returns nil or an error; it ends after it only at the command limit.
C26_ExtensionOnly ==
    ( /\ CommandRead
      /\ cmd.verb \in server.Extensions
      /\ cmd.verb \notin server.Disabled
      /\ \/ ~server.Auth
         \/ prev.User # NilUser
         \/ cmd.verb \in {"AUTH", "EHLO", "HELO", "NOOP", "RSET", "QUIT", "STARTTLS"} )
    => /\ cmd.ran = "extension"
       /\ conn = prev
       /\ wire = <<[code |-> 250, cont |-> FALSE, text |-> "extension"]>>
       /\ pc = "closed" => i >= server.MaxCommands

C26_Witness ==
    /\ cmd.verb = "EHLO" /\ cmd.ran = "extension" /\ cmd.res = "error"
    /\ prev.transaction # 0 /\ conn.transaction # 0
    /\ conn.ToAddr # <<>>
    /\ pc = "loop"

\* C27: a command whose verb the server's Disabled map holds as true is
\* answered 502 Command not implemented (550 Not implemented for EHLO) by
\* the disabled check, whatever the auth gate, the extensions and the
\* built-in cases would have done with it; the connection, the handler
\* calls and the message are as before and only the command count moves.
\* A verb named by the last Disable call is answered so, and a verb named
\* by the last Enable call goes to the stage it would reach if it had never
\* been disabled.
C27_DisableEnable ==
    [][ CommandStep =>
        LET verb     == cmd'.verb
            disabled == verb \in DOMAIN registry.Disabled /\ registry.Disabled[verb]
            normal   == IF /\ server.Auth /\ conn.User = NilUser
                           /\ verb \notin {"AUTH", "EHLO", "HELO", "NOOP", "RSET",
                                           "QUIT", "STARTTLS"}
                        THEN "gate"
                        ELSE IF verb \in DOMAIN registry.Extensions
                        THEN "extension" ELSE "builtin"
        IN  /\ (disabled \/ (call.op = "Disable" /\ verb = ToUpper(call.name)))
               => /\ cmd'.ran = "disabled"
                  /\ wire' = << [code |-> IF verb = "EHLO" THEN 550 ELSE 502,
                                 cont |-> FALSE,
                                 text |-> IF verb = "EHLO" THEN "Not implemented"
                                          ELSE "Command not implemented"] >>
                  /\ conn' = conn
                  /\ handlerCalls' = handlerCalls
                  /\ message' = message
                  /\ i' = i + 1
                  /\ pc' = "closed" => i' >= server.MaxCommands
            /\ (call.op = "Enable" /\ verb = ToUpper(call.name))
               => cmd'.ran = normal ]_vars

C27_Witness ==
    /\ call.op = "Enable" /\ cmd.verb = ToUpper(call.name)
    /\ cmd.ran = "extension"
    /\ registry.Disabled[cmd.verb] = FALSE
    /\ "VRFY" \in DOMAIN registry.Disabled /\ registry.Disabled["VRFY"]
    /\ prev.transaction # 0 /\ conn = prev

\* C28: every command that is read has its reply complete when the next
\* command is read or the connection is closed: the lines written for it end
\* with a final reply, a line that is neither a continuation line (250-) nor
\* an intermediate 3xx reply.
C28_FinalReply ==
    CommandRead
    => /\ wire # <<>>
       /\ ~Reply.cont
       /\ Reply.code \notin 300..399

\* C30: a read timeout ends the session only when the client has been idle
\* for longer than read_timeout since the last line the server wrote to it: a
\* client that sends each command within read_timeout of the previous reply
\* is never disconnected by a read timeout.
C30_PromptClientKept ==
    (cmd.ran = "readerr" /\ cmd.res = "timeout")
    => now - lastWrite > ReadTimeout

\* C29: a step of one session, and in particular its end by a read timeout,
\* an I/O error, too many unrecognised commands or a failed handshake, and a
\* Handler error in it, changes no field of any other session (Conn with
\* IsTLS, User, FromAddr, ToAddr and error count, command count, open or
\* closed) and leaves the accept loop as it was; the accept loop stops only
\* on an error of its own Accept.
C29_SessionsIsolated ==
    [][ /\ \A id \in SessionIds :
             (sessions[id].state = "open" /\ sessions'[id] # sessions[id])
             => /\ \A o \in SessionIds \ {id} : sessions'[o] = sessions[o]
                /\ listener' = listener
        /\ (listener.state = "listening" /\ listener'.state # "listening")
             => (listener'.err = "fatal" /\ sessions' = sessions) ]_vars

C29_Witness ==
    /\ sessions[1].state = "closed" /\ sessions[1].cause = "handshake-failed"
    /\ sessions[2].state = "open" /\ sessions[2].i >= 2
    /\ sessions[2].conn.transaction # 0 /\ sessions[2].conn.FromAddr # NilAddr
    /\ listener.state = "listening"

\* C31: for every Message, BCC() is the sequence of the elements of rcpt, in
\* rcpt order, whose address equals no address of To; so no element of BCC()
\* is an address of To and every element of BCC() is an element of rcpt.
NotInTo(a) == \A k \in 1..Len(msg.To) : msg.To[k] # a

C31_BCC ==
    ret.op = "BCC"
    => /\ ret.val = SelectSeq(msg.rcpt, NotInTo)
       /\ \A k \in 1..Len(ret.val) :
             /\ NotInTo(ret.val[k])
             /\ \E j \in 1..Len(msg.rcpt) : msg.rcpt[j] = ret.val[k]

C31_Witness ==
    /\ ret.op = "BCC"
    /\ Len(msg.rcpt) = 3 /\ Len(ret.val) = 2 /\ ret.val[1] # ret.val[2]
    /\ msg.To # <<>>

\* C32: every call of ID() on a Message returns the same value: the
\* Message-ID header when the Message has one, and otherwise a token that is
\* generated by the first call and by no later one; no other method changes
\* the value.
C32_IDStable ==
    [][ /\ ret'.op = "ID"
           => /\ ret'.val = msg'.messageID
              /\ msg'.once
              /\ msg.id # "" => (ret'.val = msg.id /\ msg'.generated = 0)
              /\ msg.id = "" => (ret'.val \in Tokens /\ msg'.generated = 1)
        /\ msg.once => (msg'.once /\ msg'.messageID = msg.messageID) ]_vars

C32_Witness ==
    /\ ret.op = "ID" /\ msg.id = "" /\ msg.once
    /\ msg.generated = 1 /\ ret.val = "t2"

\* the body of the Message itself does not parse: it is a leaf whose transfer
\* encoding does not decode, or a multipart whose boundaries are malformed
BodyUndecodable(m) ==
    IF IsMultipart(m.Header.ctype) THEN ~m.RawBody.ok
    ELSE TransferDecode(m.Header.cte, m.RawBody.text).err # NilErr

RECURSIVE LeafFails(_)
LeafFails(e) ==
    IF IsMultipart(e.ctype)
    THEN \E k \in 1..Len(e.raw.parts) : LeafFails(e.raw.parts[k])
    ELSE TransferDecode(e.cte, e.raw.text).err # NilErr

\* the tree holds a nil part
RECURSIVE HasNil(_)
HasNil(parts) ==
    \E k \in 1..Len(parts) : parts[k].nil \/ HasNil(parts[k].Children)

\* C34: when the transfer encoding of any leaf part, top-level or nested in a
\* multipart, does not decode, Parts returns an error; the tree Parts returns
\* never holds a nil part.
C34_DecodeErrorsPropagate ==
    ret.op = "Parts"
    => /\ LeafFails(Entity(msg.Header.ctype, msg.Header.cte, msg.RawBody))
          => ret.err.kind = "error"
       /\ ret.err = NilErr => ~HasNil(ret.val)

\* the body of the first of the parts that has the type
FirstOfType(parts, contentType, body) ==
    \E k \in 1..Len(parts) :
        /\ parts[k].ctype = contentType
        /\ \A j \in 1..(k - 1) : parts[j].ctype # contentType
        /\ body = parts[k].Body

NoneOfType(parts, contentType) ==
    \A k \in 1..Len(parts) : parts[k].ctype # contentType

\* C35: on every tree Parts returns, FindBody(ct) returns the body of the
\* top-level part if the top-level media type is ct; else, if the top level is
\* multipart/alternative, the body of its first direct child of type ct; else
\* the body of the first child of type ct of the first direct child that is
\* multipart/alternative; it fails when there is no multipart/alternative or
\* the alternative holds no part of type ct.
C35_FindBodyOrder ==
    LET tree == Parts(msg).parts
        top  == msg.Header.ctype
        ct   == ret.arg
        alt  == "multipart/alternative"
    IN  (ret.op = "FindBody" /\ Parts(msg).err = NilErr /\ ~HasNil(tree))
        => IF top = ct
           THEN ret.err = NilErr /\ ret.val = tree[1].Body
           ELSE IF top = alt
           THEN \/ ret.err = NilErr /\ FirstOfType(tree, ct, ret.val)
                \/ ret.err.kind = "error" /\ NoneOfType(tree, ct)
           ELSE \/ ret.err.kind = "error" /\ NoneOfType(tree, alt)
                \/ \E a \in 1..Len(tree) :
                      /\ tree[a].ctype = alt
                      /\ \A j \in 1..(a - 1) : tree[j].ctype # alt
                      /\ \/ ret.err = NilErr
                            /\ FirstOfType(tree[a].Children, ct, ret.val)
                         \/ ret.err.kind = "error"
                            /\ NoneOfType(tree[a].Children, ct)

\* Plain found the text in the alternative nested in a multipart/mixed whose
\* first part is something else
C35_Witness ==
    /\ ret.op = "FindBody" /\ ret.arg = "text/plain"
    /\ msg.Header.ctype = "multipart/mixed"
    /\ Len(msg.RawBody.parts) = 2
    /\ msg.RawBody.parts[1].ctype = "text/calendar"
    /\ ret.err = NilErr
    /\ ret.val = "hello"

\* C36: on a server with auth configured the Handler is called only while the
\* user is set: the command that calls it is read with the user set, and the
\* user is still set after it; a session whose user is unset, because it
\* never authenticated or because EHLO cleared the user, delivers nothing.
C36_HandlerNeedsUser ==
    [][ (server.Auth /\ handlerCalls' # handlerCalls)
        => /\ conn.User # NilUser
           /\ conn'.User = conn.User
           /\ cmd'.verb = "DATA" ]_vars

\* a message is delivered on a server with auth by a session whose user is set
C36_Witness ==
    /\ server.Auth
    /\ handlerCalls = 1
    /\ cmd.verb = "DATA" /\ cmd.ran = "builtin"
    /\ prev.User # NilUser
    /\ conn.User # NilUser
    /\ message.rcpt # <<>>

\* C37: the recipients of a delivered message are forward-paths accepted by
\* RCPT commands issued after the MAIL that opened its transaction; so a
\* message delivered by a DATA that directly follows that MAIL has no
\* recipients, whatever RCPTs were accepted before the MAIL, in an earlier
\* transaction or outside any.
C37_RcptAfterMail ==
    [][ ( /\ handlerCalls' # handlerCalls
          /\ cmd.verb = "MAIL" /\ cmd.ran = "builtin" /\ Reply.code = 250 )
        => message'.rcpt = <<>> ]_vars

\* C38: with the built-in PLAIN and CRAM-MD5 mechanisms, in every state of a
\* session a user that is set implies a TLS connection, and the AUTH that sets
\* the user is read on a TLS connection: no command sequence authenticates a
\* principal over an unencrypted connection.
C38_UserImpliesTLS ==
    /\ conn.User # NilUser => conn.IsTLS
    /\ (cmd.verb = "AUTH" /\ prev.User = NilUser /\ conn.User # NilUser)
       => prev.IsTLS

\* a client authenticated after STARTTLS
C38_Witness ==
    /\ cmd.verb = "AUTH" /\ cmd.ran = "builtin"
    /\ prev.User = NilUser /\ prev.IsTLS
    /\ conn.User # NilUser /\ conn.IsTLS
    /\ Reply.code = 235

\* the last command was a STARTTLS whose handshake succeeded
Upgraded == cmd.verb = "STARTTLS" /\ cmd.ran = "builtin" /\ cmd.res = "upgraded"

\* C39: a STARTTLS whose handshake succeeds discards an open transaction:
\* after it the reverse-path and the recipients are empty and no transaction
\* is open; a DATA that follows it without a new MAIL does not call the
\* Handler, and a well-formed MAIL that follows it, from a sender the user
\* may use, is accepted and opens a transaction.
C39_StartTLSDropsTransaction ==
    [][ /\ Upgraded'
           => /\ conn'.FromAddr = NilAddr
              /\ conn'.ToAddr = <<>>
              /\ conn'.transaction = 0
        /\ (Upgraded /\ CommandStep /\ cmd'.verb = "DATA")
           => handlerCalls' = handlerCalls
        /\ ( /\ Upgraded /\ CommandStep
             /\ cmd'.verb = "MAIL" /\ cmd'.ran = "builtin"
             /\ cmd'.args \in WellFormedFrom
             /\ conn.User = NilUser \/ IsUser(conn.User, MailboxOf(cmd'.args)) )
           => /\ Reply'.code = 250
              /\ conn'.transaction # 0
              /\ conn'.FromAddr = MailboxOf(cmd'.args)
              /\ conn'.ToAddr = <<>> ]_vars

\* the handshake succeeded with a transaction open and a recipient accepted
C39_Witness ==
    /\ Upgraded
    /\ prev.transaction # 0
    /\ prev.FromAddr # NilAddr
    /\ prev.ToAddr # <<>>
    /\ conn.transaction = 0 /\ conn.ToAddr = <<>> /\ conn.FromAddr = NilAddr
    /\ pc = "loop"

\* C40: once a receive on Ready has yielded true, Address returns the
\* non-empty listening address and Close closes the listener without a
\* panic; Ready yields true at most once, and only if net.Listen succeeded.
C40_ReadyMeansListening ==
    /\ \A k \in 1..Len(startup.address) : startup.address[k] = "addr"
    /\ startup.close # "none" => startup.close = "ok"
    /\ \A j, k \in 1..Len(startup.got) :
          (startup.got[j] /\ startup.got[k]) => j = k
    /\ (\E k \in 1..Len(startup.got) : startup.got[k])
          => (startup.net # "none" /\ startup.err # "listen")
====
